---- MODULE Spec2Model ----
(***************************************************************************)
(* The JSON document store of the CMS: JSONHandler (read, write with       *)
(* backup, lock, temporary file and atomic replace, _create_backup,        *)
(* _validate_structure, restore_backup) and the route handlers that read,  *)
(* mutate and write the document.                                          *)
(***************************************************************************)
EXTENDS Integers, Sequences, FiniteSets, TLC

(***************************************************************************)
(* Bounds of the model and constants of the program.                       *)
(***************************************************************************)
\* Longest items / gameBadges list of a document handed directly to write().
MaxLen == 2
\* Last second of the wall clock; backup names are the seconds 0..MaxTime.
MaxTime == 1
\* Requests served by the workers in one behaviour of the route-level model.
MaxRequests == 2
\* Direct calls of write() in one behaviour of the handler-level model.
MaxCalls == 1
\* backups[50:] are deleted by _create_backup.
Retention == 50

Workers == {"w1", "w2"}
Ids == {"a", "b"}
ExtraKeys == {"version"}
Times == 0..MaxTime
NoBackup == -1

(***************************************************************************)
(* Documents in memory: what json.load returns and the routes mutate.      *)
(* A collection is a list of elements, some other JSON value, or missing;  *)
(* an element is an object (with or without an id; the id a string or an   *)
(* unhashable list) or some other JSON value.                              *)
(***************************************************************************)
Elem(kind, hasId, idt, id, name, loc, icon, bid, bname) ==
    [kind |-> kind, hasId |-> hasId, idt |-> idt, id |-> id, name |-> name,
     loc |-> loc, icon |-> icon, bid |-> bid, bname |-> bname]

NewItem(id, name, loc, icon, bid, bname) ==
    Elem("object", TRUE, "str", id, name, loc, icon, bid, bname)

NewBadge(id, name, icon) == Elem("object", TRUE, "str", id, name, 0, icon, "", "")

NotAnObject == Elem("other", FALSE, "str", "", "", 0, "", "", "")
ObjectWithoutId == Elem("object", FALSE, "str", "", "n1", 0, "", "", "")
ObjectWithListId == Elem("object", TRUE, "list", "", "n1", 0, "", "", "")

ListOf(elems) == [tag |-> "list", elems |-> elems]
MissingKey == [tag |-> "missing", elems |-> <<>>]
NotAList == [tag |-> "other", elems |-> <<>>]

MkDoc(root, items, gameBadges, extra) ==
    [root |-> root, items |-> items, gameBadges |-> gameBadges, extra |-> extra]

NotADict == MkDoc("other", MissingKey, MissingKey, {})

\* json_handler.py:49, the document read() returns when the file is absent.
EmptyDoc == MkDoc("object", ListOf(<<>>), ListOf(<<>>), {})

(***************************************************************************)
(* _validate_structure, check by check in the order of the code.  The      *)
(* result is "ok" or the error raised: a ValueError of the code, or the    *)
(* TypeError of `item['id'] in item_ids` when the id is unhashable.        *)
(***************************************************************************)
RECURSIVE ValidateElems(_, _, _, _)
ValidateElems(elems, i, seen, what) ==
    IF i > Len(elems) THEN "ok"
    ELSE LET e == elems[i] IN
         IF e.kind # "object" THEN what \o " must be an object"
         ELSE IF ~e.hasId THEN what \o " missing 'id'"
         ELSE IF e.idt # "str" THEN "TypeError: unhashable type"
         ELSE IF e.id \in seen THEN "Duplicate " \o what \o " ID"
         ELSE ValidateElems(elems, i + 1, seen \cup {e.id}, what)

ValidateStructure(data) ==
    IF data.root # "object" THEN "Root must be an object"
    ELSE IF data.items.tag = "missing" THEN "Missing 'items' key"
    ELSE IF data.gameBadges.tag = "missing" THEN "Missing 'gameBadges' key"
    ELSE IF data.items.tag # "list" THEN "'items' must be a list"
    ELSE IF data.gameBadges.tag # "list" THEN "'gameBadges' must be a list"
    ELSE LET r == ValidateElems(data.items.elems, 1, {}, "item") IN
         IF r # "ok" THEN r
         ELSE ValidateElems(data.gameBadges.elems, 1, {}, "game badge")

(***************************************************************************)
(* JSON text: json.dump writes a tree of objects (ordered members), arrays *)
(* (ordered elements), strings and numbers; json.load reads it back.       *)
(***************************************************************************)
JStr(s) == [t |-> "str", s |-> s, n |-> 0, m |-> <<>>]
JNum(n) == [t |-> "num", s |-> "", n |-> n, m |-> <<>>]
JArr(vals) == [t |-> "arr", s |-> "", n |-> 0, m |-> vals]
JObj(members) == [t |-> "obj", s |-> "", n |-> 0, m |-> members]
JNull == [t |-> "null", s |-> "", n |-> 0, m |-> <<>>]
Member(k, v) == [k |-> k, v |-> v]

DumpId(e) ==
    IF ~e.hasId THEN <<>>
    ELSE <<Member("id", IF e.idt = "str" THEN JStr(e.id) ELSE JArr(<<>>))>>

DumpItem(e) ==
    IF e.kind # "object" THEN JStr("x")
    ELSE JObj(DumpId(e) \o
              <<Member("name", JStr(e.name)),
                Member("location", JNum(e.loc)),
                Member("icon", JStr(e.icon)),
                Member("badge", JObj(<<Member("id", JStr(e.bid)),
                                       Member("name", JStr(e.bname))>>))>>)

DumpBadge(e) ==
    IF e.kind # "object" THEN JStr("x")
    ELSE JObj(DumpId(e) \o
              <<Member("name", JStr(e.name)), Member("icon", JStr(e.icon))>>)

\* A faulty variant of DumpItems: the list is written last element first.
DumpItemsReversed(v) ==
    IF v.tag = "missing" THEN <<>>
    ELSE IF v.tag = "other" THEN <<Member("items", JStr("x"))>>
    ELSE <<Member("items",
                  JArr([i \in 1..Len(v.elems) |->
                           Member("", DumpItem(v.elems[Len(v.elems) + 1 - i]))]))>>

DumpItems(v) ==
    IF v.tag = "missing" THEN <<>>
    ELSE IF v.tag = "other" THEN <<Member("items", JStr("x"))>>
    ELSE <<Member("items",
                  JArr([i \in 1..Len(v.elems) |-> Member("", DumpItem(v.elems[i]))]))>>

DumpBadges(v) ==
    IF v.tag = "missing" THEN <<>>
    ELSE IF v.tag = "other" THEN <<Member("gameBadges", JStr("x"))>>
    ELSE <<Member("gameBadges",
                  JArr([i \in 1..Len(v.elems) |-> Member("", DumpBadge(v.elems[i]))]))>>

\* A faulty variant of DumpExtra: only the two known keys are written.
DumpKnownKeysOnly(extra) == <<>>

\* The top-level keys besides items and gameBadges, written as they are.
DumpExtra(extra) ==
    IF "version" \in extra THEN <<Member("version", JStr("v1"))>> ELSE <<>>

\* json.dump(data, f, indent=2, ensure_ascii=False)
JsonDump(data) ==
    IF data.root # "object" THEN JStr("x")
    ELSE JObj(DumpItems(data.items) \o DumpBadges(data.gameBadges) \o DumpExtra(data.extra))

HasKey(j, k) == \E i \in 1..Len(j.m) : j.m[i].k = k
Get(j, k) == j.m[CHOOSE i \in 1..Len(j.m) : j.m[i].k = k].v
GetStr(j, k) == IF HasKey(j, k) THEN Get(j, k).s ELSE ""
GetNum(j, k) == IF HasKey(j, k) THEN Get(j, k).n ELSE 0

LoadItem(j) ==
    IF j.t # "obj" THEN NotAnObject
    ELSE Elem("object", HasKey(j, "id"),
              IF HasKey(j, "id") /\ Get(j, "id").t # "str" THEN "list" ELSE "str",
              GetStr(j, "id"), GetStr(j, "name"), GetNum(j, "location"),
              GetStr(j, "icon"),
              IF HasKey(j, "badge") THEN GetStr(Get(j, "badge"), "id") ELSE "",
              IF HasKey(j, "badge") THEN GetStr(Get(j, "badge"), "name") ELSE "")

LoadBadge(j) ==
    IF j.t # "obj" THEN NotAnObject
    ELSE Elem("object", HasKey(j, "id"),
              IF HasKey(j, "id") /\ Get(j, "id").t # "str" THEN "list" ELSE "str",
              GetStr(j, "id"), GetStr(j, "name"), 0, GetStr(j, "icon"), "", "")

LoadItems(j) ==
    IF ~HasKey(j, "items") THEN MissingKey
    ELSE LET a == Get(j, "items") IN
         IF a.t # "arr" THEN NotAList
         ELSE ListOf([i \in 1..Len(a.m) |-> LoadItem(a.m[i].v)])

LoadBadges(j) ==
    IF ~HasKey(j, "gameBadges") THEN MissingKey
    ELSE LET a == Get(j, "gameBadges") IN
         IF a.t # "arr" THEN NotAList
         ELSE ListOf([i \in 1..Len(a.m) |-> LoadBadge(a.m[i].v)])

\* json.load(f) of a complete file
JsonLoad(j) ==
    IF j.t # "obj" THEN NotADict
    ELSE MkDoc("object", LoadItems(j), LoadBadges(j),
               {k \in ExtraKeys : HasKey(j, k)})

(***************************************************************************)
(* Files.  A file is absent, complete (it holds the text of one dump), or  *)
(* partly written: truncated by open('w') or by shutil.copy and not yet    *)
(* filled, or left behind by a dump that failed or that raced another.     *)
(***************************************************************************)
AbsentFile == [exists |-> FALSE, whole |-> FALSE, text |-> JNull]
PartialFile == [exists |-> TRUE, whole |-> FALSE, text |-> JNull]
WholeFile(text) == [exists |-> TRUE, whole |-> TRUE, text |-> text]
FileOf(data) == WholeFile(JsonDump(data))

(***************************************************************************)
(* State.                                                                  *)
(***************************************************************************)
VARIABLES
    live,          \* Config.ASSETS_JSON, the live document file
    tmp,           \* assets.json.tmp beside it
    backups,       \* BACKUP_DIR: second of the name -> file
    now,           \* datetime.now(), in seconds
    lockImpl,      \* "filelock" when the filelock package imports, else "noop"
    disk,          \* the files on the disk beside the document: the set of their paths
    file_path,     \* the file_path of a worker's asset delete request
    users,         \* the user table: id -> row, NoUser where there is none
    lockHolder,    \* the worker inside `with FileLock(...)`, or ""
    pc,            \* where each worker's request stands
    op,            \* what the request does: "write", "restore", "read", "early"
    data,          \* the document handed to write(), or returned by read()
    pre,           \* the live file when the request read it and called write()
    bk,            \* backup_path of the current write (NoBackup is None)
    hnd,           \* where the file a worker has open for writing is now
    src,           \* the file a worker's shutil.copy reads
    snap,          \* its content, once the name was renamed over or unlinked
    res,           \* how the request ended
    target,        \* backup_name of a restore request
    nreq,          \* requests started so far
    lastReplacer,  \* the worker whose replace() ran last, or ""
    doomed,        \* backups[50:] of a worker's glob, not yet unlinked
    commits,       \* write() calls that returned True so far
    named,         \* the file restore_backup(name) found under the name when called
    role,          \* current_user.role of the session a worker serves, "" when logged out
    call,          \* the Validator call of a worker's request, NoCall when none
    ret            \* what that call returned

vars == <<live, tmp, backups, now, disk, file_path, users, lockImpl, lockHolder, pc, op, data,
          pre, bk, hnd, src, snap, res, target, nreq, lastReplacer,
          doomed, commits, named, role, call, ret>>

files == <<live, tmp, backups>>

\* No Validator call was made, and nothing was returned.
NoCall == [fn |-> "", arg |-> <<>>]
NoReturn == "none"

NoSrc == -1
LiveSrc == -2
SnapSrc == -3

\* What a read of the live file gives: json.load raises on a partial file.
\* A faulty variant of CanParse: every file parses.
CanParseAny(f) == TRUE

CanParse(f) == f.exists => f.whole

\* A faulty variant of ReadFile: an absent file is parsed like an existing one.
ReadFileStrict(f) == JsonLoad(f.text)

\* json.load of the file, or the empty document of the FileNotFoundError clause.
ReadFile(f) == IF f.exists THEN JsonLoad(f.text) ELSE EmptyDoc

\* The bytes a running shutil.copy reads from its source.
SrcContent(w) ==
    IF src[w] = SnapSrc THEN snap[w]
    ELSE IF src[w] = LiveSrc THEN live
    ELSE backups[src[w]]

\* sorted(glob('assets_*.json'), reverse=True)[50:], the files the loop unlinks.
Newer(dir, n) == Cardinality({m \in DOMAIN dir : dir[m].exists /\ m > n})
Doomed(dir) == {n \in DOMAIN dir : dir[n].exists /\ Newer(dir, n) >= Retention}

\* `with FileLock(...)` is left: the real lock is released, the fallback does nothing.
Release(w) == IF lockHolder = w THEN "" ELSE lockHolder

Ready(w) == pc[w] \in {"idle", "done"} /\ nreq < MaxRequests

\* A faulty variant of WriteGate: the document is not validated.
WriteGateOff(d) == "ok"

\* The gate `if validate: self._validate_structure(data)`; every caller passes
\* validate=True by default.
WriteGate(d) == ValidateStructure(d)

\* A faulty variant of FirstStep: the lock is taken without the backup.
FirstStepLock == "lock"

\* What write() does first once the document passed the gate: the backup.
FirstStep == "backup"

\* A faulty variant of TempPath: the document is serialised into the live file.
InPlacePath == "live"

\* temp_path = json_path.with_suffix('.json.tmp'), the file write() serialises into.
TempPath == "tmp"

End(w, kind, doc, result) ==
    /\ pc' = [pc EXCEPT ![w] = "done"]
    /\ op' = [op EXCEPT ![w] = kind]
    /\ nreq' = nreq + 1
    /\ data' = [data EXCEPT ![w] = doc]
    /\ pre' = [pre EXCEPT ![w] = live]
    /\ bk' = [bk EXCEPT ![w] = NoBackup]
    /\ res' = [res EXCEPT ![w] = result]
    /\ UNCHANGED <<named, doomed, commits, live, tmp, backups, now, lockImpl, disk, file_path, users, role, lockHolder, hnd, src, snap,
                   target, lastReplacer>>

\* write(d) is entered.
EnterWrite(w, d) ==
    /\ op' = [op EXCEPT ![w] = "write"]
    /\ nreq' = nreq + 1
    /\ data' = [data EXCEPT ![w] = d]
    /\ pre' = [pre EXCEPT ![w] = live]
    /\ bk' = [bk EXCEPT ![w] = NoBackup]
    /\ IF WriteGate(d) = "ok"
       THEN /\ pc' = [pc EXCEPT ![w] = FirstStep]
            /\ res' = [res EXCEPT ![w] = ""]
       ELSE /\ pc' = [pc EXCEPT ![w] = "done"]
            /\ res' = [res EXCEPT ![w] = WriteGate(d)]
    /\ UNCHANGED <<named, doomed, commits, live, tmp, backups, now, lockImpl, disk, file_path, users, role, lockHolder, hnd, src, snap,
                   target, lastReplacer>>

(***************************************************************************)
(* _create_backup, called by write() and by restore_backup().              *)
(***************************************************************************)
AfterBackup(w) == IF op[w] = "restore" THEN "restore_open" ELSE "lock"

\* exists() check, timestamp, and shutil.copy opening source and target.
Backup(w) ==
    /\ pc[w] = "backup"
    /\ IF ~live.exists
       THEN /\ pc' = [pc EXCEPT ![w] = AfterBackup(w)]
            /\ UNCHANGED <<bk, backups, src>>
       ELSE /\ bk' = [bk EXCEPT ![w] = now]
            /\ backups' = [backups EXCEPT ![now] = PartialFile]
            /\ src' = [src EXCEPT ![w] = LiveSrc]
            /\ pc' = [pc EXCEPT ![w] = "backup_copy"]
    /\ UNCHANGED <<named, doomed, commits, live, tmp, now, lockImpl, disk, file_path, users, role, call, ret, lockHolder, op, data, pre,
                   hnd, snap, res, target, nreq, lastReplacer>>

\* shutil.copy finishes and the directory is listed; with nothing beyond the
\* newest 50 the loop is empty and the path is returned.
BackupCopy(w) ==
    /\ pc[w] = "backup_copy"
    /\ LET filled == IF backups[bk[w]].exists
                     THEN [backups EXCEPT ![bk[w]] = SrcContent(w)]
                     ELSE backups
       IN /\ backups' = filled
          /\ doomed' = [doomed EXCEPT ![w] = Doomed(filled)]
          /\ pc' = [pc EXCEPT ![w] =
                       IF Doomed(filled) = {} THEN AfterBackup(w) ELSE "prune"]
    /\ src' = [src EXCEPT ![w] = NoSrc]
    /\ UNCHANGED <<named, commits, live, tmp, now, lockImpl, disk, file_path, users, role, call, ret, lockHolder, op, data, pre,
                   bk, hnd, snap, res, target, nreq, lastReplacer>>

\* One pass of `for old_backup in backups[50:]: old_backup.unlink()`, newest
\* first; unlink() of a file that is gone raises, and nothing catches it in
\* _create_backup, in write() (the call is above its try) or in restore_backup().
Unlink(w) ==
    /\ pc[w] = "prune"
    /\ LET n == CHOOSE m \in doomed[w] : \A k \in doomed[w] : k <= m
           rest == doomed[w] \ {n}
       IN IF backups[n].exists
          THEN /\ backups' = [backups EXCEPT ![n] = AbsentFile]
               /\ doomed' = [doomed EXCEPT ![w] = rest]
               /\ pc' = [pc EXCEPT ![w] = IF rest = {} THEN AfterBackup(w) ELSE "prune"]
               /\ src' = [v \in Workers |-> IF src[v] = n THEN SnapSrc ELSE src[v]]
               /\ snap' = [v \in Workers |-> IF src[v] = n THEN backups[n] ELSE snap[v]]
               /\ UNCHANGED res
          ELSE /\ pc' = [pc EXCEPT ![w] = "done"]
               /\ res' = [res EXCEPT ![w] = "FileNotFoundError"]
               /\ doomed' = [doomed EXCEPT ![w] = {}]
               /\ UNCHANGED <<backups, src, snap>>
    /\ UNCHANGED <<named, commits, live, tmp, now, lockImpl, disk, file_path, users, role, call, ret, lockHolder, op, data, pre,
                   bk, hnd, target, nreq, lastReplacer>>

(***************************************************************************)
(* write(): the locked section and the except clause.                      *)
(***************************************************************************)
\* An exception leaves the `with` block (the lock is released) for the except clause.
Raise(w) ==
    /\ pc' = [pc EXCEPT ![w] = "rollback"]
    /\ lockHolder' = Release(w)

\* `with FileLock(...)` is entered and the temporary file opened for writing.
Lock(w) ==
    /\ pc[w] = "lock"
    /\ lockImpl = "filelock" => lockHolder = ""
    /\ lockHolder' = IF lockImpl = "filelock" THEN w ELSE lockHolder
    /\ tmp' = IF TempPath = "tmp" THEN PartialFile ELSE tmp
    /\ live' = IF TempPath = "live" THEN PartialFile ELSE live
    /\ hnd' = [hnd EXCEPT ![w] = TempPath]
    /\ pc' = [pc EXCEPT ![w] = "dump"]
    /\ UNCHANGED <<named, doomed, commits, backups, now, lockImpl, disk, file_path, users, role, call, ret, op, data, pre, bk, src,
                   snap, res, target, nreq, lastReplacer>>

\* The file the open handle of w writes to holds a complete text of another writer.
Raced(w) ==
    \/ hnd[w] = "tmp" /\ tmp.whole
    \/ hnd[w] = "live" /\ live.whole

DumpOutcomes(w) ==
    {"written", "failed"} \cup (IF Raced(w) THEN {"mixed"} ELSE {})

\* json.dump into the open handle, and the handle closed.
Dump(w) ==
    /\ pc[w] = "dump"
    /\ \E outcome \in DumpOutcomes(w) :
         LET content == IF outcome = "written" THEN FileOf(data[w]) ELSE PartialFile IN
         /\ tmp' = IF hnd[w] = "tmp" THEN content ELSE tmp
         /\ live' = IF hnd[w] = "live" THEN content ELSE live
         /\ IF outcome = "failed"
            THEN Raise(w)
            ELSE /\ pc' = [pc EXCEPT ![w] = "reparse"]
                 /\ UNCHANGED lockHolder
    /\ hnd' = [hnd EXCEPT ![w] = "none"]
    /\ UNCHANGED <<named, doomed, commits, backups, now, lockImpl, disk, file_path, users, role, call, ret, op, data, pre, bk, src, snap,
                   res, target, nreq, lastReplacer>>

\* The temporary file is opened again and json.load run on it.
Reparse(w) ==
    /\ pc[w] = "reparse"
    /\ \E fault \in BOOLEAN :
         IF fault \/ ~tmp.exists \/ ~tmp.whole
         THEN Raise(w)
         ELSE /\ pc' = [pc EXCEPT ![w] = "replace"]
              /\ UNCHANGED lockHolder
    /\ UNCHANGED <<named, doomed, commits, live, tmp, backups, now, lockImpl, disk, file_path, users, role, call, ret, op, data, pre, bk,
                   hnd, src, snap, res, target, nreq, lastReplacer>>

\* The name the file a handle refers to has after the temporary file was renamed
\* over the live file.
Renamed(h) == IF h = "tmp" THEN "live" ELSE IF h = "live" THEN "orphan" ELSE h

\* temp_path.replace(self.json_path); return True.
Replace(w) ==
    /\ pc[w] = "replace"
    /\ \E fault \in BOOLEAN :
         IF fault \/ ~tmp.exists
         THEN /\ Raise(w)
              /\ UNCHANGED <<named, live, tmp, hnd, src, snap, res, lastReplacer, commits>>
         ELSE /\ live' = tmp
              /\ commits' = commits + 1
              /\ tmp' = AbsentFile
              /\ hnd' = [v \in Workers |-> Renamed(hnd[v])]
              /\ src' = [v \in Workers |-> IF src[v] = LiveSrc THEN SnapSrc ELSE src[v]]
              /\ snap' = [v \in Workers |-> IF src[v] = LiveSrc THEN live ELSE snap[v]]
              /\ lockHolder' = Release(w)
              /\ pc' = [pc EXCEPT ![w] = "done"]
              /\ res' = [res EXCEPT ![w] = "ok"]
              /\ lastReplacer' = w
    /\ UNCHANGED <<named, doomed, backups, now, lockImpl, disk, file_path, users, role, call, ret, op, data, pre, bk, target, nreq>>

\* except Exception: `if backup_path.exists(): shutil.copy(...)` up to the opening
\* of source and target; backup_path is None when there was no live file.
Rollback(w) ==
    /\ pc[w] = "rollback"
    /\ IF bk[w] = NoBackup
       THEN /\ pc' = [pc EXCEPT ![w] = "done"]
            /\ res' = [res EXCEPT ![w] = "AttributeError"]
            /\ UNCHANGED <<live, hnd, src>>
       ELSE IF backups[bk[w]].exists
       THEN /\ live' = PartialFile
            /\ hnd' = [hnd EXCEPT ![w] = "live"]
            /\ src' = [src EXCEPT ![w] = bk[w]]
            /\ pc' = [pc EXCEPT ![w] = "rollback_copy"]
            /\ UNCHANGED res
       ELSE /\ pc' = [pc EXCEPT ![w] = "done"]
            /\ res' = [res EXCEPT ![w] = "Failed to write JSON"]
            /\ UNCHANGED <<live, hnd, src>>
    /\ UNCHANGED <<named, doomed, commits, tmp, backups, now, lockImpl, disk, file_path, users, role, call, ret, lockHolder, op, data, pre,
                   bk, snap, target, nreq, lastReplacer>>

\* shutil.copy finishes; raise Exception("Failed to write JSON: ...").
RollbackCopy(w) ==
    /\ pc[w] = "rollback_copy"
    /\ live' = IF hnd[w] = "live" THEN SrcContent(w) ELSE live
    /\ hnd' = [hnd EXCEPT ![w] = "none"]
    /\ src' = [src EXCEPT ![w] = NoSrc]
    /\ pc' = [pc EXCEPT ![w] = "done"]
    /\ res' = [res EXCEPT ![w] = "Failed to write JSON"]
    /\ UNCHANGED <<named, doomed, commits, tmp, backups, now, lockImpl, disk, file_path, users, role, call, ret, lockHolder, op, data, pre,
                   bk, snap, target, nreq, lastReplacer>>

(***************************************************************************)
(* read() and the clock.                                                   *)
(***************************************************************************)
\* read(): the whole file is parsed in one go, without the lock.
ReadResult(w) ==
    /\ pc' = [pc EXCEPT ![w] = "done"]
    /\ op' = [op EXCEPT ![w] = "read"]
    /\ IF CanParse(live)
       THEN /\ data' = [data EXCEPT ![w] = ReadFile(live)]
            /\ res' = [res EXCEPT ![w] = "read"]
       ELSE /\ res' = [res EXCEPT ![w] = "CorruptDocument"]
            /\ UNCHANGED data
    /\ UNCHANGED <<named, doomed, commits, live, tmp, backups, now, lockImpl, disk, file_path, users, role, call, ret, lockHolder, pre, bk,
                   hnd, src, snap, target, lastReplacer>>

\* handler.read() called by a process beside the writers.
Read(w) ==
    /\ pc[w] \in {"idle", "done"}
    /\ ReadResult(w)
    /\ UNCHANGED nreq

\* A second passes.
Tick ==
    /\ (now + 1) \in DOMAIN backups
    /\ now' = now + 1
    /\ UNCHANGED <<named, doomed, commits, live, tmp, backups, lockImpl, disk, file_path, users, role, call, ret, lockHolder, pc, op, data,
                   pre, bk, hnd, src, snap, res, target, nreq, lastReplacer>>

(***************************************************************************)
(* The handler-level model: one caller of write(doc) with any document,    *)
(* and a reader beside it.                                                 *)
(***************************************************************************)
SeqsUpTo(S, n) == UNION {[1..k -> S] : k \in 0..n}

ItemElems ==
    {NotAnObject, ObjectWithoutId, ObjectWithListId}
        \cup {NewItem(i, "n1", 0, "", i, "n1") : i \in Ids}

BadgeElems ==
    {NotAnObject, ObjectWithoutId, ObjectWithListId}
        \cup {NewBadge(i, "n1", "") : i \in Ids}

Collections(E) ==
    {MissingKey, NotAList} \cup {ListOf(s) : s \in SeqsUpTo(E, MaxLen)}

SampleDocs ==
    {NotADict} \cup
    {MkDoc("object", i, b, x) :
        i \in Collections(ItemElems), b \in Collections(BadgeElems), x \in SUBSET ExtraKeys}

SeedDoc ==
    MkDoc("object",
          ListOf(<<NewItem("a", "n1", 0, "p1", "a", "n1"), NewItem("b", "n1", 0, "", "b", "n1")>>),
          ListOf(<<NewBadge("a", "n1", "")>>), {})

OtherDoc ==
    MkDoc("object", ListOf(<<NewItem("b", "n2", 1, "", "b", "n2")>>), ListOf(<<>>), {})

\* handler.write(doc) with validate left at its default.
WriteCall(w) ==
    /\ pc[w] \in {"idle", "done"}
    /\ nreq < MaxCalls
    /\ \E d \in SampleDocs : EnterWrite(w, d)
    /\ UNCHANGED <<call, ret>>

WriteSteps(w) ==
    \/ Backup(w)
    \/ BackupCopy(w)
    \/ Lock(w)
    \/ Dump(w)
    \/ Reparse(w)
    \/ Replace(w)
    \/ Rollback(w)
    \/ RollbackCopy(w)

\* The files on the disk at the start: an icon of the project and a file outside
\* of it.
InitialDisk == {<<"srv", "hrp", "assets", "a.svg">>, <<"etc", "passwd">>}

\* A row of the user table of models.py (the password is left out), and the place
\* of a row that is not there.
UserRow(username, user_role, is_active) ==
    [exists |-> TRUE, username |-> username, role |-> user_role, is_active |-> is_active]

NoUser == [exists |-> FALSE, username |-> "", role |-> "", is_active |-> FALSE]

MaxUsers == 3
UserIds == 1..MaxUsers

\* Two administrators.
SeedUsers ==
    [i \in UserIds |-> IF i = 1 THEN UserRow("a", "admin", TRUE)
                       ELSE IF i = 2 THEN UserRow("b", "admin", TRUE)
                       ELSE NoUser]

InitStore ==
    /\ tmp = AbsentFile
    /\ disk = InitialDisk
    /\ file_path = [w \in Workers |-> ""]
    /\ lockHolder = ""
    /\ doomed = [w \in Workers |-> {}]
    /\ named = [w \in Workers |-> AbsentFile]
    /\ pc = [w \in Workers |-> "idle"]
    /\ op = [w \in Workers |-> ""]
    /\ data = [w \in Workers |-> EmptyDoc]
    /\ pre = [w \in Workers |-> AbsentFile]
    /\ bk = [w \in Workers |-> NoBackup]
    /\ hnd = [w \in Workers |-> "none"]
    /\ src = [w \in Workers |-> NoSrc]
    /\ snap = [w \in Workers |-> AbsentFile]
    /\ res = [w \in Workers |-> ""]
    /\ target = [w \in Workers |-> 0]
    /\ nreq = 0
    /\ lastReplacer = ""
    /\ call = [w \in Workers |-> NoCall]
    /\ ret = [w \in Workers |-> NoReturn]

InitCommon == InitStore /\ users = SeedUsers

\* Every session is the one of an administrator: User.role defaults to 'admin'.
InitAdmins == role = [w \in Workers |-> "admin"]

\* The backup directory before any write: mkdir(parents=True, exist_ok=True).
InitEmptyDir ==
    /\ backups = [n \in Times |-> AbsentFile]
    /\ now = 0
    /\ commits = 0

InitSingle ==
    /\ live \in {AbsentFile, FileOf(SeedDoc)}
    /\ lockImpl \in {"filelock", "noop"}
    /\ InitCommon
    /\ InitAdmins
    /\ InitEmptyDir

NextSingle ==
    \/ WriteCall("w1")
    \/ WriteSteps("w1")
    \/ Read("w2")
    \/ Tick

SpecSingle == InitSingle /\ [][NextSingle]_vars

(***************************************************************************)
(* Two callers of write(doc) side by side, under either build of the lock. *)
(***************************************************************************)
WriterDocs == {SeedDoc, OtherDoc}

WriteOf(w) ==
    /\ Ready(w)
    /\ \E d \in WriterDocs : EnterWrite(w, d)
    /\ UNCHANGED <<call, ret>>

NextWriters ==
    \/ \E w \in Workers : WriteOf(w)
    \/ \E w \in Workers : WriteSteps(w)
    \/ Tick

SpecWriters == InitSingle /\ [][NextWriters]_vars

(***************************************************************************)
(* restore_backup(name), reached from the /restore-backup route.           *)
(***************************************************************************)
\* A faulty variant of NameExists: the name is not looked up.
NameExistsAlways(dir, n) == TRUE

\* `if not backup_path.exists(): raise FileNotFoundError(...)` of restore_backup.
NameExists(dir, n) == dir[n].exists

\* restore_backup(name) is entered: the exists() check; then _create_backup runs.
Restore(w) ==
    /\ Ready(w)
    /\ \E n \in Times :
         /\ target' = [target EXCEPT ![w] = n]
         /\ named' = [named EXCEPT ![w] = backups[n]]
         /\ IF NameExists(backups, n)
            THEN /\ pc' = [pc EXCEPT ![w] = "backup"]
                 /\ res' = [res EXCEPT ![w] = ""]
            ELSE /\ pc' = [pc EXCEPT ![w] = "done"]
                 /\ res' = [res EXCEPT ![w] = "FileNotFoundError"]
    /\ op' = [op EXCEPT ![w] = "restore"]
    /\ nreq' = nreq + 1
    /\ pre' = [pre EXCEPT ![w] = live]
    /\ bk' = [bk EXCEPT ![w] = NoBackup]
    /\ UNCHANGED <<live, tmp, backups, now, lockImpl, disk, file_path, users, role, call, ret, lockHolder, data,
                   hnd, src, snap, lastReplacer, doomed, commits>>

\* shutil.copy(backup_path, self.json_path) opens source and target.
RestoreOpen(w) ==
    /\ pc[w] = "restore_open"
    /\ IF backups[target[w]].exists
       THEN /\ live' = PartialFile
            /\ hnd' = [hnd EXCEPT ![w] = "live"]
            /\ src' = [src EXCEPT ![w] = target[w]]
            /\ pc' = [pc EXCEPT ![w] = "restore_copy"]
            /\ UNCHANGED res
       ELSE /\ pc' = [pc EXCEPT ![w] = "done"]
            /\ res' = [res EXCEPT ![w] = "FileNotFoundError"]
            /\ UNCHANGED <<live, hnd, src>>
    /\ UNCHANGED <<named, doomed, commits, tmp, backups, now, lockImpl, disk, file_path, users, role, call, ret, lockHolder, op, data, pre,
                   bk, snap, target, nreq, lastReplacer>>

\* shutil.copy finishes; return True.
RestoreCopy(w) ==
    /\ pc[w] = "restore_copy"
    /\ live' = IF hnd[w] = "live" THEN SrcContent(w) ELSE live
    /\ hnd' = [hnd EXCEPT ![w] = "none"]
    /\ src' = [src EXCEPT ![w] = NoSrc]
    /\ pc' = [pc EXCEPT ![w] = "done"]
    /\ res' = [res EXCEPT ![w] = "ok"]
    /\ UNCHANGED <<named, doomed, commits, tmp, backups, now, lockImpl, disk, file_path, users, role, call, ret, lockHolder, op, data, pre,
                   bk, snap, target, nreq, lastReplacer>>

(***************************************************************************)
(* The routes: each reads the document, changes it in memory and hands the *)
(* whole document to write().                                              *)
(***************************************************************************)
\* The values the requests carry.
NewNames == {"n2"}
Icons == {"p1"}
Locs == {1}

ItemsOf(d) == d.items.elems
BadgesOf(d) == d.gameBadges.elems
WithItems(d, s) == [d EXCEPT !.items = ListOf(s)]
WithBadges(d, s) == [d EXCEPT !.gameBadges = ListOf(s)]

HasId(elems, id) == \E i \in 1..Len(elems) : elems[i].idt = "str" /\ elems[i].id = id

\* The index of the first element with that id, 0 when there is none.
FirstIndex(elems, id) ==
    IF HasId(elems, id)
    THEN CHOOSE i \in 1..Len(elems) :
            /\ elems[i].idt = "str" /\ elems[i].id = id
            /\ \A j \in 1..(i - 1) : ~(elems[j].idt = "str" /\ elems[j].id = id)
    ELSE 0

RemoveAt(elems, i) == SubSeq(elems, 1, i - 1) \o SubSeq(elems, i + 1, Len(elems))

ToWrite(d) == [st |-> "write", doc |-> d]
NoWrite(st, d) == [st |-> st, doc |-> d]

\* A route answers: the read fails on a corrupt file, the route returns early, or
\* it calls handler.write(data).
Serve(w, out) ==
    /\ Ready(w)
    /\ IF ~CanParse(live) THEN End(w, "early", EmptyDoc, "CorruptDocument")
       ELSE IF out.st = "write" THEN EnterWrite(w, out.doc)
       ELSE End(w, "early", ReadFile(live), out.st)
    /\ UNCHANGED <<target, call, ret>>

\* item_routes.create
CreateItem(d, id, name, icon) ==
    IF HasId(ItemsOf(d), id) THEN NoWrite("exists", d)
    ELSE ToWrite(WithItems(d, Append(ItemsOf(d), NewItem(id, name, 0, icon, id, name))))

ItemCreate(w) ==
    \E id \in Ids, name \in NewNames, icon \in Icons :
        Serve(w, CreateItem(ReadFile(live), id, name, icon))

\* item_routes.edit (POST)
EditItem(d, id, name) ==
    LET i == FirstIndex(ItemsOf(d), id) IN
    IF i = 0 THEN NoWrite("notfound", d)
    ELSE ToWrite(WithItems(d, [ItemsOf(d) EXCEPT ![i].name = name]))

ItemEdit(w) ==
    \E id \in Ids, name \in NewNames :
        Serve(w, EditItem(ReadFile(live), id, name))

\* item_routes.delete
DeleteItem(d, id) ==
    LET i == FirstIndex(ItemsOf(d), id) IN
    IF i = 0 THEN NoWrite("notfound", d)
    ELSE ToWrite(WithItems(d, RemoveAt(ItemsOf(d), i)))

ItemDelete(w) ==
    \E id \in Ids : Serve(w, DeleteItem(ReadFile(live), id))

\* A faulty variant of CopyId: the first candidate is taken, free or not.
CopyIdFirst(elems, base, counter) == base \o "-copy-" \o ToString(counter)

\* item_routes.duplicate: new_id = f"{base_id}-copy-{counter}", counter from 1 up.
RECURSIVE CopyId(_, _, _)
CopyId(elems, base, counter) ==
    LET new_id == base \o "-copy-" \o ToString(counter) IN
    IF HasId(elems, new_id) THEN CopyId(elems, base, counter + 1) ELSE new_id

\* item = a.copy() is a shallow copy: item['badge'] is the badge of the original,
\* so the assignments to item['badge'] change the original as well.
DuplicateItem(d, id) ==
    LET i == FirstIndex(ItemsOf(d), id) IN
    IF i = 0 THEN NoWrite("notfound", d)
    ELSE LET a == ItemsOf(d)[i]
             new_id == CopyId(ItemsOf(d), a.id, 1)
             badge_name == a.bname \o " (Copy)"
             item == [a EXCEPT !.id = new_id, !.name = a.name \o " (Copy)",
                               !.bid = new_id, !.bname = badge_name]
             shared == [ItemsOf(d) EXCEPT ![i].bid = new_id, ![i].bname = badge_name]
         IN ToWrite(WithItems(d, Append(shared, item)))

ItemDuplicate(w) ==
    \E id \in Ids : Serve(w, DuplicateItem(ReadFile(live), id))

\* badge_routes.create_game
CreateBadge(d, id, name) ==
    IF HasId(BadgesOf(d), id) THEN NoWrite("exists", d)
    ELSE ToWrite(WithBadges(d, Append(BadgesOf(d), NewBadge(id, name, ""))))

BadgeCreate(w) ==
    \E id \in Ids, name \in NewNames :
        Serve(w, CreateBadge(ReadFile(live), id, name))

\* badge_routes.edit_game (POST)
EditBadge(d, id, name) ==
    LET i == FirstIndex(BadgesOf(d), id) IN
    IF i = 0 THEN NoWrite("notfound", d)
    ELSE ToWrite(WithBadges(d, [BadgesOf(d) EXCEPT ![i].name = name]))

BadgeEdit(w) ==
    \E id \in Ids, name \in NewNames :
        Serve(w, EditBadge(ReadFile(live), id, name))

\* badge_routes.delete_game
DeleteBadge(d, id) ==
    LET i == FirstIndex(BadgesOf(d), id) IN
    IF i = 0 THEN NoWrite("notfound", d)
    ELSE ToWrite(WithBadges(d, RemoveAt(BadgesOf(d), i)))

BadgeDelete(w) ==
    \E id \in Ids : Serve(w, DeleteBadge(ReadFile(live), id))

\* map_routes.update_location
UpdateLocation(d, id, loc) ==
    LET i == FirstIndex(ItemsOf(d), id) IN
    IF i = 0 THEN NoWrite("notfound", d)
    ELSE ToWrite(WithItems(d, [ItemsOf(d) EXCEPT ![i].loc = loc]))

MapUpdateLocation(w) ==
    \E id \in Ids, loc \in Locs :
        Serve(w, UpdateLocation(ReadFile(live), id, loc))

\* map_routes.create_item: item_id = base_id, then f"{base_id}-{counter}" from 1 up.
RECURSIVE FreeId(_, _, _, _)
FreeId(elems, base, item_id, counter) ==
    IF HasId(elems, item_id)
    THEN FreeId(elems, base, base \o "-" \o ToString(counter), counter + 1)
    ELSE item_id

MapCreate(d, name, loc) ==
    LET item_id == FreeId(ItemsOf(d), name, name, 1) IN
    ToWrite(WithItems(d, Append(ItemsOf(d),
        NewItem(item_id, name, loc, "", item_id, name \o " Collectable"))))

MapCreateItem(w) ==
    \E name \in NewNames, loc \in Locs :
        Serve(w, MapCreate(ReadFile(live), name, loc))

\* content_routes.update: `if field in item: item[field] = value`, then write(),
\* whether or not a record had the id.  The value is any JSON value of the request.
StrValue(x) == [t |-> "str", s |-> x]
ListValue == [t |-> "list", s |-> ""]

SetField(e, field, value) ==
    IF field = "id" THEN [e EXCEPT !.id = value.s, !.idt = value.t]
    ELSE IF value.t = "str" THEN [e EXCEPT !.name = value.s]
    ELSE e

BulkChange(elems, id, field, value) ==
    LET i == FirstIndex(elems, id) IN
    IF i = 0 THEN elems ELSE [elems EXCEPT ![i] = SetField(elems[i], field, value)]

BulkEdit(d, type, id, field, value) ==
    IF type = "item"
    THEN ToWrite(WithItems(d, BulkChange(ItemsOf(d), id, field, value)))
    ELSE ToWrite(WithBadges(d, BulkChange(BadgesOf(d), id, field, value)))

BulkInputs ==
    ({"id"} \X ({StrValue(x) : x \in Ids} \cup {ListValue}))
        \cup ({"name"} \X {StrValue(x) : x \in NewNames})

BulkUpdate(w) ==
    \E type \in {"item", "game_badge"}, id \in Ids, fv \in BulkInputs :
        Serve(w, BulkEdit(ReadFile(live), type, id, fv[1], fv[2]))

\* content_routes.find_replace: `find_text in str(x)` and str.replace.
Contains(s, f) == \E i \in 1..(Len(s) - Len(f) + 1) : SubSeq(s, i, i + Len(f) - 1) = f

RECURSIVE ReplaceAll(_, _, _)
ReplaceAll(s, f, r) ==
    IF Len(s) < Len(f) THEN s
    ELSE IF SubSeq(s, 1, Len(f)) = f
    THEN r \o ReplaceAll(SubSeq(s, Len(f) + 1, Len(s)), f, r)
    ELSE SubSeq(s, 1, 1) \o ReplaceAll(SubSeq(s, 2, Len(s)), f, r)

ReplaceIn(x, f, r) == IF Contains(x, f) THEN ReplaceAll(x, f, r) ELSE x

FindReplaceDoc(d, f, r, scope) ==
    LET items == IF scope \in {"all", "items"}
                 THEN [i \in 1..Len(ItemsOf(d)) |->
                          [ItemsOf(d)[i] EXCEPT !.name = ReplaceIn(@, f, r),
                                               !.bname = ReplaceIn(@, f, r)]]
                 ELSE ItemsOf(d)
        badges == IF scope \in {"all", "badges"}
                  THEN [i \in 1..Len(BadgesOf(d)) |->
                           [BadgesOf(d)[i] EXCEPT !.name = ReplaceIn(@, f, r)]]
                  ELSE BadgesOf(d)
        changes == \/ scope \in {"all", "items"} /\ \E i \in 1..Len(ItemsOf(d)) :
                          Contains(ItemsOf(d)[i].name, f) \/ Contains(ItemsOf(d)[i].bname, f)
                   \/ scope \in {"all", "badges"} /\ \E i \in 1..Len(BadgesOf(d)) :
                          Contains(BadgesOf(d)[i].name, f)
    IN IF changes THEN ToWrite(WithBadges(WithItems(d, items), badges))
       ELSE NoWrite("nomatch", d)

FindReplace(w) ==
    \E f \in {"n1"}, r \in NewNames, scope \in {"all", "items", "badges"} :
        Serve(w, FindReplaceDoc(ReadFile(live), f, r, scope))

\* upload_routes.replace, the branch of the icon files: records that name old_path
\* are pointed at new_path, and the document is written when one was.
ReplaceAssetDoc(d, old_path, new_path) ==
    LET items == [i \in 1..Len(ItemsOf(d)) |->
                     IF ItemsOf(d)[i].icon = old_path
                     THEN [ItemsOf(d)[i] EXCEPT !.icon = new_path] ELSE ItemsOf(d)[i]]
        badges == [i \in 1..Len(BadgesOf(d)) |->
                      IF BadgesOf(d)[i].icon = old_path
                      THEN [BadgesOf(d)[i] EXCEPT !.icon = new_path] ELSE BadgesOf(d)[i]]
        updated == \/ \E i \in 1..Len(ItemsOf(d)) : ItemsOf(d)[i].icon = old_path
                   \/ \E i \in 1..Len(BadgesOf(d)) : BadgesOf(d)[i].icon = old_path
    IN IF new_path # old_path /\ updated
       THEN ToWrite(WithBadges(WithItems(d, items), badges))
       ELSE NoWrite("replaced", d)

AssetReplace(w) ==
    \E old_path \in Icons, new_path \in {"p2"} :
        Serve(w, ReplaceAssetDoc(ReadFile(live), old_path, new_path))

(***************************************************************************)
(* The route-level model: the workers of the server take requests.         *)
(***************************************************************************)
Routes(w) ==
    \/ ItemCreate(w)
    \/ ItemEdit(w)
    \/ ItemDelete(w)
    \/ ItemDuplicate(w)
    \/ BadgeCreate(w)
    \/ BadgeEdit(w)
    \/ BadgeDelete(w)
    \/ MapUpdateLocation(w)
    \/ MapCreateItem(w)
    \/ BulkUpdate(w)
    \/ FindReplace(w)
    \/ AssetReplace(w)

RestoreSteps(w) ==
    \/ Restore(w)
    \/ RestoreOpen(w)
    \/ RestoreCopy(w)

\* A route that only reads: handler.read() and the answer built from it.
ReadRoute(w) ==
    /\ Ready(w)
    /\ ReadResult(w)
    /\ nreq' = nreq + 1

\* The server runs with the filelock package installed.
Init ==
    /\ live \in {AbsentFile, FileOf(SeedDoc)}
    /\ lockImpl = "filelock"
    /\ InitCommon
    /\ InitAdmins
    /\ InitEmptyDir

Next ==
    \/ \E w \in Workers : Routes(w)
    \/ \E w \in Workers : WriteSteps(w)
    \/ \E w \in Workers : RestoreSteps(w)
    \/ \E w \in Workers : ReadRoute(w)
    \/ Tick

Spec == Init /\ [][Next]_vars

(***************************************************************************)
(* The retention model: the backup directory already holds the backups of  *)
(* earlier writes, one per second, and two workers write and restore.      *)
(***************************************************************************)
MaxWrites == 3

\* The seconds a backup can be named after.
Stamps == 0..(Retention + MaxTime)

\* A backup taken by an earlier write.
OldBackup == FileOf(EmptyDoc)

\* Retention - 2 or Retention earlier writes, each in a second of its own.
InitRetention ==
    /\ live = FileOf(SeedDoc)
    /\ lockImpl = "filelock"
    /\ InitCommon
    /\ InitAdmins
    /\ now = Retention
    /\ \E k \in {Retention - 2, Retention} :
         /\ backups = [n \in Stamps |-> IF n < k THEN OldBackup ELSE AbsentFile]
         /\ commits = k

WriteAgain(w) ==
    /\ pc[w] \in {"idle", "done"}
    /\ nreq < MaxWrites
    /\ EnterWrite(w, OtherDoc)
    /\ UNCHANGED <<call, ret>>

NextRetention ==
    \/ \E w \in Workers : WriteAgain(w)
    \/ \E w \in Workers : WriteSteps(w)
    \/ \E w \in Workers : RestoreSteps(w)
    \/ \E w \in Workers : Unlink(w)
    \/ Tick

SpecRetention == InitRetention /\ [][NextRetention]_vars

(***************************************************************************)
(* Strings, as the validator reads them.                                   *)
(***************************************************************************)
\* str.startswith(p)
StartsWith(s, p) == Len(s) >= Len(p) /\ SubSeq(s, 1, Len(p)) = p

\* s[k:]
Drop(s, k) == SubSeq(s, k + 1, Len(s))

\* The pieces of s between the occurrences of the character sep.
RECURSIVE SplitOn(_, _, _)
SplitOn(s, sep, acc) ==
    IF s = "" THEN <<acc>>
    ELSE IF SubSeq(s, 1, 1) = sep THEN <<acc>> \o SplitOn(Drop(s, 1), sep, "")
    ELSE SplitOn(Drop(s, 1), sep, acc \o SubSeq(s, 1, 1))

(***************************************************************************)
(* The filesystem the asset paths are resolved in.  A path is the sequence *)
(* of its components from the root directory.                              *)
(***************************************************************************)
\* Config.BASE_DIR, the project root.
BaseDir == <<"srv", "hrp">>

IsDir(p) == \E f \in disk : Len(f) > Len(p) /\ SubSeq(f, 1, Len(p)) = p

\* Where the lookup ends when a component of the path is not a directory.
Nowhere == <<"">>

\* The lookup of the operating system: ".." goes to the parent (the root is its
\* own parent), a name enters the directory.
RECURSIVE Walk(_, _)
Walk(cur, segs) ==
    IF segs = <<>> THEN cur
    ELSE IF ~IsDir(cur) THEN Nowhere
    ELSE IF Head(segs) = ".."
    THEN Walk(IF cur = <<>> THEN cur ELSE SubSeq(cur, 1, Len(cur) - 1), Tail(segs))
    ELSE Walk(Append(cur, Head(segs)), Tail(segs))

\* base / relative of pathlib and the file the result names: pathlib drops the
\* empty and "." components, and a relative path that starts with "/" is absolute
\* and replaces the base.
Resolve(base, relative) ==
    LET parts == SelectSeq(SplitOn(relative, "/", ""), LAMBDA c : c \notin {"", "."})
    IN IF StartsWith(relative, "/") THEN Walk(<<>>, parts) ELSE Walk(base, parts)

\* Path.exists(): a file or a directory is there.
Exists(p) == p \in disk \/ IsDir(p)

(***************************************************************************)
(* services/validator.py.  Records are JSON values; the result of          *)
(* validate_item, validate_badge and _validate_asset_path is the list of   *)
(* error messages in the order the code appends them.                      *)
(***************************************************************************)
\* A faulty variant of ValidateAssetPath: the empty path is looked up as well.
ValidateAssetPathNoEmpty(path, field_name) ==
    IF path.t # "str" THEN <<"'" \o field_name \o "' must be a string">>
    ELSE IF ~StartsWith(path.s, "../../")
    THEN <<"'" \o field_name \o "' must be a relative path starting with '../../'">>
    ELSE IF ~Exists(Resolve(BaseDir, Drop(path.s, 6)))
    THEN <<"'" \o field_name \o "' path does not exist: " \o path.s>>
    ELSE <<>>

ValidateAssetPath(path, field_name) ==
    IF path.t # "str" THEN <<"'" \o field_name \o "' must be a string">>
    ELSE IF path.s = "" THEN <<>>
    ELSE IF ~StartsWith(path.s, "../../")
    THEN <<"'" \o field_name \o "' must be a relative path starting with '../../'">>
    ELSE IF ~Exists(Resolve(BaseDir, Drop(path.s, 6)))
    THEN <<"'" \o field_name \o "' path does not exist: " \o path.s>>
    ELSE <<>>

RequiredFields ==
    <<"id", "name", "scientificName", "description", "badgeDescription",
      "location", "radiusMeters", "icon", "model", "ping", "badge">>

BadgeRequiredFields == <<"id", "name", "description">>

\* One "Missing required field" error for each field that is not in the record.
MissingFields(record, fields) ==
    LET absent == SelectSeq(fields, LAMBDA f : ~HasKey(record, f))
    IN [i \in 1..Len(absent) |-> "Missing required field: " \o absent[i]]

\* A faulty variant of Extend: a check is skipped once an error was found.
ExtendIfNone(errors, more) == IF errors # <<>> THEN errors ELSE errors \o more

\* errors.append(...) and errors.extend(...)
Extend(errors, more) == errors \o more

\* `not isinstance(x, str) or not x`
NotNonEmptyString(x) == x.t # "str" \/ x.s = ""

CheckId(record) ==
    IF NotNonEmptyString(Get(record, "id")) THEN <<"'id' must be a non-empty string">>
    ELSE <<>>

CheckName(item) ==
    IF NotNonEmptyString(Get(item, "name")) THEN <<"'name' must be a non-empty string">>
    ELSE <<>>

CheckLocation(item) ==
    LET location == Get(item, "location")
        lat == Get(location, "lat")
        lng == Get(location, "lng")
    IN IF location.t # "obj" THEN <<"'location' must be an object">>
       ELSE IF ~HasKey(location, "lat") \/ ~HasKey(location, "lng")
       THEN <<"'location' must have 'lat' and 'lng'">>
       ELSE (IF lat.t # "num" \/ ~(-90 <= lat.n /\ lat.n <= 90)
             THEN <<"'location.lat' must be between -90 and 90">> ELSE <<>>)
            \o (IF lng.t # "num" \/ ~(-180 <= lng.n /\ lng.n <= 180)
                THEN <<"'location.lng' must be between -180 and 180">> ELSE <<>>)

CheckRadius(item) ==
    LET radiusMeters == Get(item, "radiusMeters")
    IN IF radiusMeters.t # "num" \/ radiusMeters.n <= 0
       THEN <<"'radiusMeters' must be a positive number">>
       ELSE <<>>

CheckIcon(item) ==
    LET icon == Get(item, "icon")
    IN IF icon.t # "obj" THEN <<"'icon' must be an object">>
       ELSE IF ~HasKey(icon, "shadow") \/ ~HasKey(icon, "found")
       THEN <<"'icon' must have 'shadow' and 'found'">>
       ELSE ValidateAssetPath(Get(icon, "shadow"), "icon.shadow")
            \o ValidateAssetPath(Get(icon, "found"), "icon.found")

CheckModel(item) ==
    LET model == Get(item, "model")
    IN IF model.t # "obj" THEN <<"'model' must be an object">>
       ELSE (IF ~HasKey(model, "url") THEN <<"'model' must have 'url'">>
             ELSE ValidateAssetPath(Get(model, "url"), "model.url"))
            \o (IF HasKey(model, "usdz")
                THEN ValidateAssetPath(Get(model, "usdz"), "model.usdz") ELSE <<>>)

CheckBadge(item) ==
    LET badge == Get(item, "badge")
    IN IF badge.t # "obj" THEN <<"'badge' must be an object">>
       ELSE (IF ~HasKey(badge, "id") THEN <<"'badge' must have 'id'">> ELSE <<>>)
            \o (IF ~HasKey(badge, "name") THEN <<"'badge' must have 'name'">> ELSE <<>>)
            \o (IF HasKey(badge, "icon")
                THEN ValidateAssetPath(Get(badge, "icon"), "badge.icon") ELSE <<>>)

ValidateItem(item) ==
    IF MissingFields(item, RequiredFields) # <<>> THEN MissingFields(item, RequiredFields)
    ELSE Extend(Extend(Extend(Extend(Extend(Extend(CheckId(item),
             CheckName(item)), CheckLocation(item)), CheckRadius(item)),
             CheckIcon(item)), CheckModel(item)), CheckBadge(item))

ValidateBadge(badge) ==
    IF MissingFields(badge, BadgeRequiredFields) # <<>>
    THEN MissingFields(badge, BadgeRequiredFields)
    ELSE Extend(CheckId(badge),
                IF HasKey(badge, "icon")
                THEN ValidateAssetPath(Get(badge, "icon"), "icon") ELSE <<>>)

\* A faulty variant of ValidateCoordinates: the bounds themselves are refused.
ValidateCoordinatesOpen(lat, lng) == -90 < lat /\ lat < 90 /\ -180 < lng /\ lng < 180

ValidateCoordinates(lat, lng) == -90 <= lat /\ lat <= 90 /\ -180 <= lng /\ lng <= 180

\* str.split() without a separator: the pieces between runs of whitespace.
Whitespace == {" ", "\t", "\n"}

RECURSIVE Split(_, _)
Split(s, acc) ==
    IF s = "" THEN (IF acc = "" THEN <<>> ELSE <<acc>>)
    ELSE IF SubSeq(s, 1, 1) \in Whitespace
    THEN (IF acc = "" THEN <<>> ELSE <<acc>>) \o Split(Drop(s, 1), "")
    ELSE Split(Drop(s, 1), acc \o SubSeq(s, 1, 1))

\* float(part) returns for the strings of Python's float grammar and raises
\* ValueError for every other string:
\*   [sign] (digitpart ["." [digitpart]] | "." digitpart) [("e"|"E") [sign] digitpart]
\*   [sign] ("inf" | "infinity" | "nan")
\* with digitpart = digit (["_"] digit)*.
Digits == {"0", "1", "2", "3", "4", "5", "6", "7", "8", "9"}

\* The first position of s that holds a character of set, 0 when there is none.
IndexOf(s, set) ==
    IF \E i \in 1..Len(s) : SubSeq(s, i, i) \in set
    THEN CHOOSE i \in 1..Len(s) :
            /\ SubSeq(s, i, i) \in set
            /\ \A j \in 1..(i - 1) : SubSeq(s, j, j) \notin set
    ELSE 0

IsDigitPart(s) ==
    /\ Len(s) > 0
    /\ \A i \in 1..Len(s) : SubSeq(s, i, i) \in Digits \cup {"_"}
    /\ SubSeq(s, 1, 1) \in Digits
    /\ SubSeq(s, Len(s), Len(s)) \in Digits
    /\ \A i \in 1..(Len(s) - 1) : ~(SubSeq(s, i, i) = "_" /\ SubSeq(s, i + 1, i + 1) = "_")

Unsigned(s) == IF Len(s) > 0 /\ SubSeq(s, 1, 1) \in {"+", "-"} THEN Drop(s, 1) ELSE s

IsPointFloat(s) ==
    LET dot == IndexOf(s, {"."})
        whole == SubSeq(s, 1, dot - 1)
        fraction == Drop(s, dot)
    IN IF dot = 0 THEN IsDigitPart(s)
       ELSE /\ whole = "" \/ IsDigitPart(whole)
            /\ fraction = "" \/ IsDigitPart(fraction)
            /\ ~(whole = "" /\ fraction = "")

IsExponentFloat(s) ==
    LET e == IndexOf(s, {"e", "E"})
    IN IF e = 0 THEN IsPointFloat(s)
       ELSE IsPointFloat(SubSeq(s, 1, e - 1)) /\ IsDigitPart(Unsigned(Drop(s, e)))

\* The names float() takes besides the numbers (in any letter case; lower case here).
SpecialFloats == {"inf", "infinity", "nan"}

IsFloat(part) == Unsigned(part) \in SpecialFloats \/ IsExponentFloat(Unsigned(part))

\* A faulty variant of ValidateScale: three parts or more pass.
ValidateScaleAtLeast3(scale_str) ==
    IF scale_str.t # "str" THEN FALSE
    ELSE LET parts == Split(scale_str.s, "")
         IN IF Len(parts) < 3 THEN FALSE
            ELSE \A i \in 1..Len(parts) : IsFloat(parts[i])

ValidateScale(scale_str) ==
    IF scale_str.t # "str" THEN FALSE
    ELSE LET parts == Split(scale_str.s, "")
         IN IF Len(parts) # 3 THEN FALSE
            ELSE \A i \in 1..Len(parts) : IsFloat(parts[i])

ValidateRotation(rotation_str) == ValidateScale(rotation_str)

(***************************************************************************)
(* The validator on its own: one call of one of its functions, on a record *)
(* that differs from a valid one in up to MaxEdits fields.                 *)
(***************************************************************************)
MaxEdits == 2

GoodPath == "../../assets/a.svg"
PathValues ==
    {JStr(""), JStr("assets/a.svg"), JStr(GoodPath), JStr("../../assets/b.svg"),
     JStr("../../../../etc/passwd"), JStr("../..//etc/passwd"), JNum(1)}

Location(lat, lng) == JObj(<<Member("lat", lat), Member("lng", lng)>>)

BaseItem ==
    JObj(<<Member("id", JStr("a")),
           Member("name", JStr("n1")),
           Member("scientificName", JStr("")),
           Member("description", JStr("")),
           Member("badgeDescription", JStr("")),
           Member("location", Location(JNum(51), JNum(0))),
           Member("radiusMeters", JNum(10)),
           Member("icon", JObj(<<Member("shadow", JStr("")), Member("found", JStr(GoodPath))>>)),
           Member("model", JObj(<<Member("url", JStr(GoodPath))>>)),
           Member("ping", JObj(<<Member("cooldownMinutes", JNum(3))>>)),
           Member("badge", JObj(<<Member("id", JStr("a")), Member("name", JStr("n1"))>>))>>)

BaseBadge ==
    JObj(<<Member("id", JStr("g")), Member("name", JStr("n1")),
           Member("description", JStr(""))>>)

\* del record[k]
Without(record, k) == JObj(SelectSeq(record.m, LAMBDA x : x.k # k))

\* record[k] = v
With(record, k, v) ==
    IF HasKey(record, k)
    THEN JObj([i \in 1..Len(record.m) |-> IF record.m[i].k = k THEN Member(k, v) ELSE record.m[i]])
    ELSE JObj(Append(record.m, Member(k, v)))

\* The values a field of an item is set to.
ItemValues ==
    ({"id", "name"} \X {JStr(""), JNum(1)})
    \cup ({"location"} \X {JStr("x"), JObj(<<Member("lat", JNum(51))>>),
                            Location(JNum(91), JNum(0)), Location(JNum(0), JNum(181)),
                            Location(JStr("x"), JNum(-181)), Location(JNum(-90), JNum(180))})
    \cup ({"radiusMeters"} \X {JNum(0), JStr("x")})
    \cup ({"icon"} \X ({JStr("x"), JObj(<<Member("shadow", JStr("assets/a.svg"))>>)}
                       \cup {JObj(<<Member("shadow", p), Member("found", JStr(GoodPath))>>) :
                                p \in PathValues}
                       \cup {JObj(<<Member("shadow", p), Member("found", p)>>) :
                                p \in PathValues}))
    \cup ({"model"} \X ({JStr("x"), JObj(<<>>)}
                        \cup {JObj(<<Member("url", p)>>) : p \in PathValues}
                        \cup {JObj(<<Member("url", JStr(GoodPath)), Member("usdz", p)>>) :
                                 p \in PathValues}))
    \cup ({"badge"} \X ({JStr("x"), JObj(<<>>), JObj(<<Member("id", JStr("a"))>>),
                         JObj(<<Member("name", JStr("n1"))>>)}
                        \cup {JObj(<<Member("id", JStr("a")), Member("name", JStr("")),
                                     Member("icon", p)>>) : p \in PathValues}))

BadgeValues ==
    ({"id", "name"} \X {JStr(""), JNum(1), JStr("n2")})
    \cup ({"icon"} \X PathValues)

\* The records k edits away from the given ones: a field is deleted or set.
RECURSIVE Edited(_, _, _, _)
Edited(records, fields, values, k) ==
    IF k = 0 THEN records
    ELSE Edited(records
                  \cup {Without(r, f) : r \in records, f \in fields}
                  \cup {With(r, e[1], e[2]) : r \in records, e \in values},
                fields, values, k - 1)

Range(seq) == {seq[i] : i \in 1..Len(seq)}

ItemInputs == Edited({BaseItem}, Range(RequiredFields), ItemValues, MaxEdits)
BadgeInputs == Edited({BaseBadge}, Range(BadgeRequiredFields), BadgeValues, MaxEdits)
Latitudes == {-91, -90, -89, 0, 89, 90, 91}
Longitudes == {-181, -180, -179, 0, 179, 180, 181}
Parts == {"1", "-2.5", "a", "nan", "1e3"}
ScaleInputs ==
    {JStr(""), JStr("1 2"), JStr("1 2 3"), JStr("1 2 3 4"), JStr("1 a 3"),
     JStr(" 1\t2\n3 "), JStr("1  2   3"), JStr("1,2,3"), JStr("+.5 1_0 2."),
     JStr("inf 1 1"), JStr("1 2 3e"), JStr("1 2 _3"),
     JNum(1), JNull, JArr(<<>>)}
        \cup {JStr(a \o " " \o b \o " " \o c) : a, b, c \in Parts}

\* A call of a function of the validator and its result.
Called(w, fn, arg, result) ==
    /\ call[w].fn = ""
    /\ call' = [call EXCEPT ![w] = [fn |-> fn, arg |-> arg]]
    /\ ret' = [ret EXCEPT ![w] = result]
    /\ UNCHANGED <<live, tmp, backups, now, lockImpl, disk, file_path, users, lockHolder, pc, op, data,
                   pre, bk, hnd, src, snap, res, target, nreq, lastReplacer,
                   doomed, commits, named, role>>

CallValidateItem(w) ==
    \E item \in ItemInputs : Called(w, "validate_item", item, ValidateItem(item))

CallValidateBadge(w) ==
    \E badge \in BadgeInputs : Called(w, "validate_badge", badge, ValidateBadge(badge))

CallValidateAssetPath(w) ==
    \E path \in PathValues, field_name \in {"icon", "model.url"} :
        Called(w, "_validate_asset_path", <<path, field_name>>,
               ValidateAssetPath(path, field_name))

CallValidateCoordinates(w) ==
    \E lat \in Latitudes, lng \in Longitudes :
        Called(w, "validate_coordinates", <<lat, lng>>, ValidateCoordinates(lat, lng))

CallValidateScale(w) ==
    \E scale_str \in ScaleInputs :
        Called(w, "validate_scale", scale_str, ValidateScale(scale_str))

CallValidateRotation(w) ==
    \E rotation_str \in ScaleInputs :
        Called(w, "validate_rotation", rotation_str, ValidateRotation(rotation_str))

NextValidator ==
    \/ CallValidateItem("w1")
    \/ CallValidateBadge("w1")
    \/ CallValidateAssetPath("w1")
    \/ CallValidateCoordinates("w1")
    \/ CallValidateScale("w1")
    \/ CallValidateRotation("w1")

SpecValidator == Init /\ [][NextValidator]_vars

(***************************************************************************)
(* routes/admin_routes.py: the sessions of the workers belong to users of  *)
(* any role, or to nobody.                                                 *)
(***************************************************************************)
Roles == {"basic", "editor", "admin"}
Anonymous == ""

\* role_hierarchy.get(role, 0) of User.has_role
RoleLevel(r) ==
    CASE r = "basic" -> 1 [] r = "editor" -> 2 [] r = "admin" -> 3 [] OTHER -> 0

\* User.has_role(required_role)
HasRole(user_role, required_role) == RoleLevel(user_role) >= RoleLevel(required_role)

\* @login_required: current_user.is_authenticated
LoginRequired(w) == role[w] # Anonymous

\* @admin_required: @login_required and current_user.has_role('admin')
AdminRequired(w) == LoginRequired(w) /\ HasRole(role[w], "admin")

\* A decorator answers with a redirect and the view does not run.
Denied(w) ==
    /\ Ready(w)
    /\ ~AdminRequired(w)
    /\ End(w, "early", data[w], IF LoginRequired(w) THEN "Admin access required" ELSE "login")
    /\ UNCHANGED <<call, ret>>

\* admin_routes.backups: BackupService().list_backups()
AdminBackups(w) ==
    /\ Ready(w)
    /\ LoginRequired(w)
    /\ End(w, "list_backups", data[w], "ok")
    /\ UNCHANGED <<call, ret>>

\* admin_routes.restore_backup: BackupService().restore_backup(backup_name), or
\* 'Backup name required' when the form has no name.
AdminRestoreBackup(w) ==
    /\ LoginRequired(w)
    /\ \/ Restore(w)
       \/ /\ Ready(w)
          /\ End(w, "early", data[w], "Backup name required")
          /\ UNCHANGED <<call, ret>>

\* admin_routes.users, the view of a route under @admin_required.
AdminUsers(w) ==
    /\ Ready(w)
    /\ AdminRequired(w)
    /\ End(w, "users", data[w], "ok")
    /\ UNCHANGED <<call, ret>>

\* A document, one backup of an earlier write, and a session of any kind per worker.
InitAdmin ==
    /\ live = FileOf(SeedDoc)
    /\ lockImpl = "filelock"
    /\ InitCommon
    /\ role \in [Workers -> Roles \cup {Anonymous}]
    /\ backups = [n \in Times |-> IF n = 0 THEN OldBackup ELSE AbsentFile]
    /\ now \in Times
    /\ commits = 1

NextAdmin ==
    \/ \E w \in Workers : Denied(w)
    \/ \E w \in Workers : AdminBackups(w)
    \/ \E w \in Workers : AdminRestoreBackup(w)
    \/ \E w \in Workers : AdminUsers(w)
    \/ \E w \in Workers : Backup(w)
    \/ \E w \in Workers : BackupCopy(w)
    \/ \E w \in Workers : RestoreOpen(w)
    \/ \E w \in Workers : RestoreCopy(w)
    \/ Tick

SpecAdmin == InitAdmin /\ [][NextAdmin]_vars

(***************************************************************************)
(* The two routes that create an item, with the record they build and the  *)
(* Validator.validate_item call they make on it.                           *)
(***************************************************************************)
\* str.strip() of blanks
RECURSIVE Strip(_)
Strip(s) ==
    IF s = "" THEN s
    ELSE IF SubSeq(s, 1, 1) = " " THEN Strip(Drop(s, 1))
    ELSE IF SubSeq(s, Len(s), Len(s)) = " " THEN Strip(SubSeq(s, 1, Len(s) - 1))
    ELSE s

UpperCase == "ABCDEFGHIJKLMNOPQRSTUVWXYZ"
LowerCase == "abcdefghijklmnopqrstuvwxyz"

\* name.lower().replace(' ', '-')
RECURSIVE BaseId(_)
BaseId(name) ==
    IF name = "" THEN name
    ELSE LET c == SubSeq(name, 1, 1)
             i == IndexOf(UpperCase, {c})
         IN (IF c = " " THEN "-" ELSE IF i > 0 THEN SubSeq(LowerCase, i, i) ELSE c)
            \o BaseId(Drop(name, 1))

\* new_item of item_routes.create
FormItem(item_id, item_name, lat, shadow) ==
    JObj(<<Member("id", JStr(item_id)),
           Member("name", JStr(item_name)),
           Member("scientificName", JStr("")),
           Member("description", JStr("")),
           Member("badgeDescription", JStr("")),
           Member("location", Location(JNum(lat), JNum(0))),
           Member("radiusMeters", JNum(10)),
           Member("icon", JObj(<<Member("shadow", JStr(shadow)), Member("found", JStr(""))>>)),
           Member("model", JObj(<<Member("url", JStr("")), Member("usdz", JStr("")),
                                  Member("scale", JStr("1.0 1.0 1.0")),
                                  Member("rotation", JStr("0 0 0"))>>)),
           Member("ping", JObj(<<Member("cooldownMinutes", JNum(3))>>)),
           Member("badge", JObj(<<Member("id", JStr(item_id)), Member("name", JStr("")),
                                  Member("icon", JStr("")), Member("description", JStr("")),
                                  Member("gamePath", JStr(""))>>))>>)

\* new_item of map_routes.create_item
MapItem(item_id, name, lat, lng) ==
    JObj(<<Member("id", JStr(item_id)),
           Member("name", JStr(name)),
           Member("scientificName", JStr("")),
           Member("description", JStr("")),
           Member("badgeDescription", JStr("")),
           Member("location", Location(JNum(lat), JNum(lng))),
           Member("radiusMeters", JNum(10)),
           Member("icon", JObj(<<Member("shadow", JStr("")), Member("found", JStr(""))>>)),
           Member("model", JObj(<<Member("url", JStr("")), Member("usdz", JStr("")),
                                  Member("scale", JStr("1 1 1")),
                                  Member("rotation", JStr("0 0 0"))>>)),
           Member("ping", JObj(<<Member("cooldownMinutes", JNum(3))>>)),
           Member("badge", JObj(<<Member("id", JStr(item_id)),
                                  Member("name", JStr(name \o " Collectable")),
                                  Member("icon", JStr("")), Member("description", JStr("")),
                                  Member("gamePath", JStr(""))>>))>>)

\* The route returns before it builds a record.
Returns(w, d, answer) ==
    /\ End(w, "early", d, answer)
    /\ call' = [call EXCEPT ![w] = NoCall]
    /\ ret' = [ret EXCEPT ![w] = NoReturn]

\* errors = Validator.validate_item(new_item)
Validates(w, new_item) ==
    /\ call' = [call EXCEPT ![w] = [fn |-> "validate_item", arg |-> new_item]]
    /\ ret' = [ret EXCEPT ![w] = ValidateItem(new_item)]

\* data['items'].append(new_item); handler.write(data)
Appends(w, d, new_item) ==
    EnterWrite(w, WithItems(d, Append(ItemsOf(d),
        NewItem(Get(new_item, "id").s, Get(new_item, "name").s,
                Get(Get(new_item, "location"), "lat").n,
                Get(Get(new_item, "icon"), "shadow").s,
                Get(Get(new_item, "badge"), "id").s,
                Get(Get(new_item, "badge"), "name").s))))

\* item_routes.create (POST): `if errors:` flashes them and renders the form again.
FormCreate(w, id, name, lat, shadow) ==
    LET d == ReadFile(live)
        item_id == Strip(id)
        item_name == IF Strip(name) # "" THEN Strip(name) ELSE item_id
        new_item == FormItem(item_id, item_name, lat, shadow)
    IN /\ Ready(w)
       /\ IF ~CanParse(live) THEN Returns(w, EmptyDoc, "CorruptDocument")
          ELSE IF item_id = "" THEN Returns(w, d, "Item ID is required")
          ELSE IF HasId(ItemsOf(d), item_id) THEN Returns(w, d, "exists")
          ELSE /\ Validates(w, new_item)
               /\ IF ValidateItem(new_item) # <<>> THEN End(w, "early", d, "invalid")
                  ELSE Appends(w, d, new_item)
       /\ UNCHANGED target

\* map_routes.create_item: `if errors: pass`, then append and write.
MapCreateChecked(w, name, lat, lng) ==
    LET d == ReadFile(live)
        item_id == FreeId(ItemsOf(d), BaseId(name), BaseId(name), 1)
        new_item == MapItem(item_id, name, lat, lng)
    IN /\ Ready(w)
       /\ IF ~CanParse(live) THEN Returns(w, EmptyDoc, "CorruptDocument")
          ELSE IF ~ValidateCoordinates(lat, lng) THEN Returns(w, d, "Invalid coordinates")
          ELSE /\ Validates(w, new_item)
               /\ Appends(w, d, new_item)
       /\ UNCHANGED target

FormIds == {"c", " c ", ""}
FormNames == {"", "n2"}
FormShadows == {"", "assets/a.svg", GoodPath}
MapNames == {"New Item", ""}

ItemCreateForm(w) ==
    \E id \in FormIds, name \in FormNames, lat \in {51, 91}, shadow \in FormShadows :
        FormCreate(w, id, name, lat, shadow)

MapCreateItemJson(w) ==
    \E name \in MapNames, lat \in {51, 91}, lng \in {0, 181} :
        MapCreateChecked(w, name, lat, lng)

NextCreate ==
    \/ \E w \in Workers : ItemCreateForm(w)
    \/ \E w \in Workers : MapCreateItemJson(w)
    \/ \E w \in Workers : WriteSteps(w)
    \/ Tick

SpecCreate == Init /\ [][NextCreate]_vars

(***************************************************************************)
(* routes/upload_routes.py, delete, for a file that is not a model, and    *)
(* FileHandler.delete_file.                                                *)
(***************************************************************************)
\* @editor_required: @login_required and current_user.role in ['editor', 'admin']
EditorRequired(w) == LoginRequired(w) /\ role[w] \in {"editor", "admin"}

\* The loops over data.get('items', []) and data.get('gameBadges', []) run to
\* their end: every element has a get().
Loops(d) ==
    /\ d.root = "object"
    /\ d.items.tag \in {"list", "missing"}
    /\ d.gameBadges.tag \in {"list", "missing"}
    /\ \A i \in 1..Len(ItemsOf(d)) : ItemsOf(d)[i].kind = "object"
    /\ \A i \in 1..Len(BadgesOf(d)) : BadgesOf(d)[i].kind = "object"

\* used_in: the items and the game badges of the document read whose icon is
\* the path, compared as strings.
UsedIn(d, path) ==
    {<<"Item", i>> : i \in {i \in 1..Len(ItemsOf(d)) : ItemsOf(d)[i].icon = path}}
    \cup {<<"Game Badge", i>> : i \in {i \in 1..Len(BadgesOf(d)) : BadgesOf(d)[i].icon = path}}

\* full_path of FileHandler.delete_file; a path without the prefix is looked up
\* from the working directory, the project root here.
FullPath(path) ==
    IF StartsWith(path, "../../") THEN Resolve(BaseDir, Drop(path, 6)) ELSE Resolve(BaseDir, path)

\* upload_routes.delete up to the usage check: json_handler.read() and used_in.
UploadDeleteOf(w, path) ==
    LET d == ReadFile(live)
    IN /\ Ready(w)
       /\ EditorRequired(w)
       /\ UNCHANGED <<call, ret, target>>
       /\ IF path = "" THEN End(w, "early", data[w], "File path not provided")
          ELSE IF ~CanParse(live) THEN End(w, "early", EmptyDoc, "ValueError")
          ELSE IF ~Loops(d) THEN End(w, "early", d, "AttributeError")
          ELSE IF UsedIn(d, path) # {} THEN End(w, "early", d, "File is in use")
          ELSE /\ pc' = [pc EXCEPT ![w] = "delete_file"]
               /\ op' = [op EXCEPT ![w] = "delete"]
               /\ file_path' = [file_path EXCEPT ![w] = path]
               /\ nreq' = nreq + 1
               /\ data' = [data EXCEPT ![w] = d]
               /\ pre' = [pre EXCEPT ![w] = live]
               /\ bk' = [bk EXCEPT ![w] = NoBackup]
               /\ res' = [res EXCEPT ![w] = ""]
               /\ UNCHANGED <<named, doomed, commits, live, tmp, backups, now, lockImpl,
                              disk, users, role, lockHolder, hnd, src, snap, lastReplacer>>

\* handler.delete_file(file_path): unlink when the path is a file; the route
\* flashes the success whatever delete_file returned.
DeleteFile(w) ==
    /\ pc[w] = "delete_file"
    /\ disk' = disk \ {FullPath(file_path[w])}
    /\ pc' = [pc EXCEPT ![w] = "done"]
    /\ res' = [res EXCEPT ![w] = "File deleted successfully"]
    /\ UNCHANGED <<named, doomed, commits, live, tmp, backups, now, lockImpl, file_path,
                   users, role, call, ret, lockHolder, op, data, pre, bk, hnd, src, snap,
                   target, nreq, lastReplacer>>

DeletePaths == {"", GoodPath, "../../assets/b.svg"}

UploadDelete(w) == \E path \in DeletePaths : UploadDeleteOf(w, path)

\* An item is created by the form while an asset is deleted.
NextAssets ==
    \/ \E w \in Workers : ItemCreateForm(w)
    \/ \E w \in Workers : WriteSteps(w)
    \/ \E w \in Workers : UploadDelete(w)
    \/ \E w \in Workers : DeleteFile(w)

SpecAssets == Init /\ [][NextAssets]_vars

(***************************************************************************)
(* routes/admin_routes.py, the user management.  Each worker serves the    *)
(* session of one user, who logged in while is_active (auth_routes.login). *)
(***************************************************************************)
\* The id the session of a worker carries.
SessionUser(w) == IF w = "w1" THEN 1 ELSE 2

\* current_user.role of load_user(user_id): anonymous when the row is gone, and
\* when is_active is false (is_authenticated of UserMixin is is_active).
CurrentRole(table, w) ==
    LET u == table[SessionUser(w)]
    IN IF u.exists /\ u.is_active THEN u.role ELSE Anonymous

\* User.query.filter_by(username=username).first(): its id, 0 when there is none.
ByUsername(table, username) ==
    IF \E i \in UserIds : table[i].exists /\ table[i].username = username
    THEN CHOOSE i \in UserIds : table[i].exists /\ table[i].username = username
    ELSE 0

\* The primary key of a new row: one more than the largest in the table.
NextUserId(table) ==
    IF \A i \in UserIds : ~table[i].exists THEN 1
    ELSE 1 + CHOOSE i \in UserIds : table[i].exists /\ \A j \in UserIds : table[j].exists => j <= i

\* The request of a user-management route ends: the answer, and the table after
\* db.session.commit() or as it was.
Answer(w, table, result) ==
    /\ users' = table
    /\ role' = [v \in Workers |-> CurrentRole(table, v)]
    /\ pc' = [pc EXCEPT ![w] = "done"]
    /\ op' = [op EXCEPT ![w] = "users"]
    /\ res' = [res EXCEPT ![w] = result]
    /\ nreq' = nreq + 1
    /\ UNCHANGED <<named, doomed, commits, live, tmp, backups, now, lockImpl, disk, file_path,
                   call, ret, lockHolder, data, pre, bk, hnd, src, snap, target, lastReplacer>>

\* admin_routes.add_user (POST); commit_ok is whether db.session.commit() returned.
AddUserOf(w, form_username, password, form_role, is_active, commit_ok) ==
    LET username == Strip(form_username)
    IN /\ Ready(w)
       /\ AdminRequired(w)
       /\ NextUserId(users) \in UserIds
       /\ IF username = "" \/ password = ""
          THEN Answer(w, users, "Username and password are required.")
          ELSE IF ByUsername(users, username) # 0
          THEN Answer(w, users, "Username already exists.")
          ELSE IF form_role \notin Roles THEN Answer(w, users, "Invalid role selected.")
          ELSE IF ~commit_ok THEN Answer(w, users, "Error creating user")
          ELSE Answer(w, [users EXCEPT ![NextUserId(users)] =
                                   UserRow(username, form_role, is_active)], "created")

\* `if user.id == current_user.id and request.method == 'POST'`: the role of
\* the form is not 'admin'.
OwnAdminKept(w, user_id, form_role) == user_id = SessionUser(w) /\ form_role # "admin"

\* admin_routes.edit_user (POST)
EditUserOf(w, user_id, form_username, form_role, is_active, commit_ok) ==
    LET username == Strip(form_username)
    IN /\ Ready(w)
       /\ AdminRequired(w)
       /\ IF ~users[user_id].exists THEN Answer(w, users, "404")
          ELSE IF OwnAdminKept(w, user_id, form_role)
          THEN Answer(w, users, "You cannot remove admin access from your own account.")
          ELSE IF username = "" THEN Answer(w, users, "Username is required.")
          ELSE IF ByUsername(users, username) \notin {0, user_id}
          THEN Answer(w, users, "Username already exists.")
          ELSE IF form_role \notin Roles THEN Answer(w, users, "Invalid role selected.")
          ELSE IF ~commit_ok THEN Answer(w, users, "Error updating user")
          ELSE Answer(w, [users EXCEPT ![user_id] = UserRow(username, form_role, is_active)],
                      "updated")

\* admin_routes.delete_user
DeleteUserOf(w, user_id, commit_ok) ==
    /\ Ready(w)
    /\ AdminRequired(w)
    /\ IF ~users[user_id].exists THEN Answer(w, users, "404")
       ELSE IF user_id = SessionUser(w)
       THEN Answer(w, users, "You cannot delete your own account.")
       ELSE IF ~commit_ok THEN Answer(w, users, "Error deleting user")
       ELSE Answer(w, [users EXCEPT ![user_id] = NoUser], "deleted")

FormUsernames == {"", "a", " c "}
FormRoles == Roles \cup {"root"}

AddUser(w) ==
    \E n \in FormUsernames, p \in {"", "pw"}, r \in FormRoles, a, ok \in BOOLEAN :
        AddUserOf(w, n, p, r, a, ok)

EditUser(w) ==
    \E i \in UserIds, n \in FormUsernames, r \in FormRoles, a, ok \in BOOLEAN :
        EditUserOf(w, i, n, r, a, ok)

DeleteUser(w) == \E i \in UserIds, ok \in BOOLEAN : DeleteUserOf(w, i, ok)

\* The tables of two users of which one at least is an active administrator.
UserTables ==
    {t \in [UserIds -> {NoUser} \cup {UserRow(n, r, a) : n \in {"a", "b"}, r \in Roles,
                                                       a \in BOOLEAN}] :
        /\ t[1].exists /\ t[1].username = "a"
        /\ t[2].exists /\ t[2].username = "b"
        /\ ~t[3].exists
        /\ \E i \in UserIds : t[i].role = "admin" /\ t[i].is_active}

InitUsers ==
    /\ live = FileOf(SeedDoc)
    /\ lockImpl = "filelock"
    /\ InitStore
    /\ InitEmptyDir
    /\ users \in UserTables
    /\ role = [w \in Workers |-> CurrentRole(users, w)]

NextUsers ==
    \/ \E w \in Workers : Denied(w)
    \/ \E w \in Workers : AddUser(w)
    \/ \E w \in Workers : EditUser(w)
    \/ \E w \in Workers : DeleteUser(w)

SpecUsers == InitUsers /\ [][NextUsers]_vars

(***************************************************************************)
(* Properties.                                                             *)
(***************************************************************************)
Failed(w) ==
    /\ op[w] = "write"
    /\ pc[w] = "done"
    /\ res[w] \in {"Failed to write JSON", "AttributeError"}

Succeeded(w) == op[w] = "write" /\ pc[w] = "done" /\ res[w] = "ok"

InLockedSection(w) == pc[w] \in {"dump", "reparse", "replace"}

\* C1: with a single writer, once a write() that failed between the opening of the
\* temporary file and the rename has raised, the live file has the content it had
\* before the call, and is absent if it was absent.
C1_FailedWriteKeepsLive == \A w \in Workers : Failed(w) => live = pre[w]

\* A failed write of a new document over an existing file, rolled back from the backup.
C1_Witness ==
    /\ Failed("w1")
    /\ res["w1"] = "Failed to write JSON"
    /\ pre["w1"].exists
    /\ FileOf(data["w1"]) # pre["w1"]
    /\ live = pre["w1"]

\* C2: at most one write() at a time is between the opening of the temporary file
\* and the end of the replace.
C2_OneWriterInside == Cardinality({w \in Workers : InLockedSection(w)}) <= 1

\* C3: a read() beside a write(), failing writes included, returns a whole document:
\* the one before the write or the one written.
C3_ReadSeesWholeDocument ==
    (op["w2"] = "read" /\ op["w1"] = "write") =>
        /\ res["w2"] = "read"
        /\ data["w2"] \in {ReadFile(pre["w1"]), data["w1"]}

\* C4: when a write() replaces the live file, the backup it took holds the content
\* the live file has at that moment.  Stated for the build with the real lock, for a
\* live file that is whole and for a backup name no other write in progress uses.
C4_BackupIsPreReplaceState ==
    [][\A w \in Workers :
         (/\ lockImpl = "filelock"
          /\ pc[w] = "replace" /\ pc'[w] = "done" /\ res'[w] = "ok"
          /\ bk[w] # NoBackup
          /\ live.whole
          /\ \A v \in Workers \ {w} : bk[v] # bk[w])
         => backups[bk[w]] = live]_vars

\* C5: when two requests read the same document and both write successfully, the
\* live file holds exactly the document of the one that replaced last.
C5_LastWriterWins ==
    \A w, v \in Workers :
        (/\ w # v
         /\ Succeeded(w) /\ Succeeded(v)
         /\ pre[w] = pre[v]
         /\ lastReplacer = w)
        => (CanParse(live) /\ ReadFile(live) = data[w])

\* Both requests succeeded from the same document, their documents differ, and the
\* live file holds the later one only: the change of the other is lost.
C5_Witness ==
    \E w, v \in Workers :
        /\ w # v
        /\ Succeeded(w) /\ Succeeded(v)
        /\ pre[w] = pre[v]
        /\ pre[w].exists
        /\ lastReplacer = w
        /\ data[v] # data[w]
        /\ data[v] # ReadFile(pre[v])
        /\ ReadFile(live) = data[w]

\* C6: a read() after a successful write(d), no other write in between, returns d:
\* order of the lists and unknown top-level keys included.
C6_RoundTrip ==
    [][(Succeeded("w1") /\ Read("w2")) =>
          (res'["w2"] = "read" /\ data'["w2"] = data["w1"])]_vars

\* A document of two items in the order b, a with an unknown key was written and read back.
C6_Witness ==
    /\ Succeeded("w1")
    /\ op["w2"] = "read" /\ res["w2"] = "read"
    /\ data["w2"] = data["w1"]
    /\ data["w1"].extra = {"version"}
    /\ Len(data["w1"].items.elems) = 2
    /\ data["w1"].items.elems[1].id = "b"
    /\ data["w1"].items.elems[2].id = "a"

\* C7: a write() of a document that fails validation ends at once with that error:
\* live file, backups, temporary file and lock are as they were.
C7_RejectedBeforeAnyChange ==
    [][\A w \in Workers :
         (/\ pc[w] \in {"idle", "done"}
          /\ nreq' = nreq + 1
          /\ op'[w] = "write"
          /\ ValidateStructure(data'[w]) # "ok")
         => (/\ pc'[w] = "done"
             /\ res'[w] = ValidateStructure(data'[w])
             /\ bk'[w] = NoBackup
             /\ UNCHANGED <<live, tmp, backups, lockHolder>>)]_vars

\* A request was rejected for a duplicate id while backups of earlier writes exist.
C7_Witness ==
    \E w \in Workers :
        /\ op[w] = "write" /\ pc[w] = "done"
        /\ res[w] = "Duplicate item ID"
        /\ \E n \in Times : backups[n].exists
        /\ live.exists

LiveIsValid == ~live.exists \/ (live.whole /\ ValidateStructure(JsonLoad(live.text)) = "ok")

\* C8: whenever no request is in progress, the live file is absent or a document
\* with both lists and unique ids in each.
C8_DocumentInvariant ==
    (\A w \in Workers : pc[w] \in {"idle", "done"}) => LiveIsValid

\* The defects of a document that the validation is to reject, and no other.
SameId(e, f) == e.idt = f.idt /\ e.id = f.id

BadCollection(c) ==
    \/ c.tag # "list"
    \/ \E i \in 1..Len(c.elems) : c.elems[i].kind # "object" \/ ~c.elems[i].hasId
    \/ \E i, j \in 1..Len(c.elems) : i # j /\ SameId(c.elems[i], c.elems[j])

Defective(d) == d.root # "object" \/ BadCollection(d.items) \/ BadCollection(d.gameBadges)

\* C9: the validation refuses a document exactly when it has one of the defects.
C9_RejectsExactlyDefects ==
    \A w \in Workers :
        op[w] = "write" =>
            ((pc[w] = "done" /\ res[w] \notin {"ok", "Failed to write JSON", "AttributeError"})
                <=> Defective(data[w]))

\* C10: a write() on an existing live file that has gone past its backup step, and
\* so may write the temporary file or change the live file, has its backup on disk.
C10_BackupFirst ==
    \A w \in Workers :
        (/\ op[w] = "write"
         /\ pre[w].exists
         /\ \/ pc[w] \in {"lock", "dump", "reparse", "replace", "rollback", "rollback_copy"}
            \/ Succeeded(w) \/ Failed(w))
        => (bk[w] # NoBackup /\ backups[bk[w]].exists)

\* The write is about to replace the live file and its backup is the whole file
\* the live file was when write() was called.
C10_Witness ==
    \E w \in Workers :
        /\ op[w] = "write" /\ pc[w] = "replace"
        /\ pre[w].exists
        /\ bk[w] # NoBackup
        /\ backups[bk[w]] = pre[w]
        /\ tmp = FileOf(data[w])

\* C11: every write() that fails after the gate raises "Failed to write JSON: <cause>",
\* also when there was no live file before the call and so no backup was made.
C11_FailureIsWrapped ==
    \A w \in Workers :
        (op[w] = "write" /\ pc[w] = "done" /\ WriteGate(data[w]) = "ok"
            /\ res[w] # "ok")
        => res[w] = "Failed to write JSON"

Quiet == \A w \in Workers : pc[w] \in {"idle", "done"}

BackupNames == {n \in DOMAIN backups : backups[n].exists}

\* C12: once more than 50 write() calls have succeeded on an existing document and
\* no call is running, exactly 50 backups remain.
C12_FiftyBackupsRemain ==
    (Quiet /\ commits > Retention) => Cardinality(BackupNames) = Retention

\* C13: retention pruning is best-effort: a call whose backup copy was made goes on
\* to its next step (the lock of write(), the copy of restore_backup()) whatever
\* happens to the deletions of old backups.
C13_PruningNeverFailsTheCall ==
    [][\A w \in Workers :
          (pc[w] = "prune" /\ pc'[w] # "prune") => pc'[w] = AfterBackup(w)]_vars

\* A backup whose copy has finished.
Written(n) ==
    /\ backups[n].exists
    /\ backups[n].whole
    /\ \A w \in Workers : ~(pc[w] = "backup_copy" /\ bk[w] = n)

\* C14: a backup, once written, keeps its content until retention deletes it: no
\* later write() or restore_backup() overwrites it.
C14_BackupsImmutable ==
    [][\A n \in DOMAIN backups :
          Written(n) => (backups'[n] = backups[n] \/ ~backups'[n].exists)]_vars

\* The canonical empty document with one valid item appended.
BootDocs ==
    {WithItems(EmptyDoc, <<NewItem(i, "n1", 0, "", i, "n1")>>) : i \in Ids}

\* The first write on a store without a document file has returned True.
Bootstrapped(w) == Succeeded(w) /\ ~pre[w].exists /\ data[w] \in BootDocs

\* The bootstrap scenario, with the number of backups the first write leaves.
BootstrapStep(count) ==
    Read("w2") =>
        /\ ~live.exists => (res'["w2"] = "read" /\ data'["w2"] = EmptyDoc)
        /\ Bootstrapped("w1") =>
              /\ Cardinality(BackupNames) = count
              /\ res'["w2"] = "read"
              /\ HasId(ItemsOf(data'["w2"]), ItemsOf(data["w1"])[1].id)

\* C15 as stated: on a store without a document file read() returns the empty
\* document, write() of it plus one valid item succeeds and creates exactly one
\* backup, and the next read() returns the item under its id.
C15_BootstrapOneBackup == [][BootstrapStep(1)]_vars

\* C15, amended: on a store without a document file read() returns the empty
\* document, write() of it plus one valid item succeeds and creates no backup
\* (there is no file to copy), and the next read() returns the item under its id.
C15_BootstrapNoBackup == [][BootstrapStep(0)]_vars

\* The bootstrap write has returned and the reader has read the item back.
C15_Witness ==
    /\ Bootstrapped("w1")
    /\ BackupNames = {}
    /\ op["w2"] = "read" /\ res["w2"] = "read"
    /\ data["w2"] = data["w1"]

\* C16: read() returns the canonical empty document when the file is absent, fails
\* with CorruptDocument when the file does not parse, returns the parsed document
\* otherwise, and leaves the live file, the temporary file, the backups and the
\* lock as they were.
C16_ReadOnlyReads ==
    [][\A w \in Workers :
          Read(w) =>
             /\ ~live.exists => (res'[w] = "read" /\ data'[w] = EmptyDoc)
             /\ (live.exists /\ ~live.whole) => res'[w] = "CorruptDocument"
             /\ live.whole => (res'[w] = "read" /\ data'[w] = JsonLoad(live.text))
             /\ UNCHANGED <<live, tmp, backups, lockHolder>>]_vars

\* A read() of the live file while a rollback copy is rewriting it has failed.
C16_Witness ==
    /\ op["w2"] = "read" /\ res["w2"] = "CorruptDocument"
    /\ live.exists /\ ~live.whole
    /\ \E n \in DOMAIN backups : backups[n].exists

\* C17: restore_backup(name) with a name that is not in the backup directory fails
\* with FileNotFoundError at once and changes nothing: the live file, the backups
\* (none created, none pruned), the temporary file and the lock are as before.
C17_RestoreUnknownName ==
    [][\A w \in Workers :
          (Restore(w) /\ ~backups[target'[w]].exists) =>
             /\ pc'[w] = "done"
             /\ res'[w] = "FileNotFoundError"
             /\ UNCHANGED <<live, tmp, backups, lockHolder>>]_vars

\* A restore of a missing name was refused while a document and another backup exist.
C17_Witness ==
    \E w \in Workers :
        /\ op[w] = "restore" /\ pc[w] = "done" /\ res[w] = "FileNotFoundError"
        /\ ~backups[target[w]].exists
        /\ live.exists
        /\ BackupNames # {}

\* C18: restore_backup(name) of a name that is in the backup directory, with any
\* number of backups up to the retention bound and at any time: the call succeeds,
\* the live file becomes what the named backup held when the call started, and a
\* backup of the live file was taken before it was overwritten.
C18_RestoreOfExistingName ==
    [][\A w \in Workers :
          (op[w] = "restore" /\ named[w].whole
              /\ pc[w] \notin {"idle", "done"} /\ pc'[w] = "done") =>
             /\ res'[w] = "ok"
             /\ live' = named[w]
             /\ pre[w].exists => bk[w] # NoBackup]_vars

\* The step with which a write() that passed the gate returns or raises.
Finishes(w) ==
    /\ op[w] = "write"
    /\ pc[w] \notin {"idle", "done"}
    /\ pc'[w] = "done"

\* C19 (outcome): with the real lock, a write() that finishes has either committed
\* (the live file holds the submitted document) or rolled back (a live file that
\* was complete when the call began is complete again, never half-written), and
\* no longer holds the lock.
C19_CommittedOrRolledBack ==
    [][\A w \in Workers :
          (lockImpl = "filelock" /\ Finishes(w)) =>
             /\ lockHolder' # w
             /\ IF res'[w] = "ok"
                THEN live' = FileOf(data[w])
                ELSE (pre[w].exists => pre[w].whole)
                        => (live'.exists => live'.whole)]_vars

\* The scheduler lets every worker that can take a step of write() take one.
FairWriters == SpecWriters /\ \A w \in Workers : WF_vars(WriteSteps(w))

\* C19 (progress): every write() that has started finishes with the lock free of
\* it, and a writer waiting for the lock gets it.
C19_EveryWriteFinishes ==
    \A w \in Workers :
        /\ (pc[w] \notin {"idle", "done"}) ~> (pc[w] = "done" /\ lockHolder # w)
        /\ (pc[w] = "lock") ~> (pc[w] = "dump")

\* A writer is at `with FileLock(...)` while another worker holds the lock.
Waiting(w) ==
    /\ pc[w] = "lock"
    /\ lockImpl = "filelock"
    /\ lockHolder \notin {"", w}

\* C20: a write() waiting for the lock is not blocked for as long as the other
\* writer holds it: it always has a step to take, the LockTimeout failure.
C20_WaitIsBounded == \A w \in Workers : Waiting(w) => ENABLED WriteSteps(w)

\* C26: validate_coordinates(lat, lng) is true exactly when -90 <= lat <= 90 and
\* -180 <= lng <= 180, the bounds included: (91, 0) and (0, 181) are refused,
\* (-90, -180) and (90, 180) are accepted.
C26_CoordinateRange ==
    \A w \in Workers :
        call[w].fn = "validate_coordinates" =>
            LET lat == call[w].arg[1]
                lng == call[w].arg[2]
            IN /\ ret[w] = (lat \in -90..90 /\ lng \in -180..180)
               /\ <<lat, lng>> \in {<<91, 0>>, <<0, 181>>} => ret[w] = FALSE
               /\ <<lat, lng>> \in {<<-90, -180>>, <<90, 180>>} => ret[w] = TRUE

\* The corner (90, 180) was accepted.
C26_Witness ==
    \E w \in Workers :
        /\ call[w].fn = "validate_coordinates"
        /\ call[w].arg = <<90, 180>>
        /\ ret[w] = TRUE

\* The parts of the inputs that are written as a float, and the claim's examples.
NumericLiterals == {"1", "2", "3", "4", "-2.5", "1e3", "+.5", "1_0", "2.", "nan", "inf"}

ScaleExamples ==
    [s \in {"1 2 3", "1 2", "1 2 3 4", "1 a 3", ""} |-> s = "1 2 3"]

\* C27: validate_scale(s) is true exactly when s is a string that splits on
\* whitespace into exactly 3 parts, each of which is a numeric literal: "1 2 3" is
\* accepted, "1 2", "1 2 3 4", "1 a 3", "" and every value that is not a string are
\* refused; validate_rotation answers as validate_scale on every input.
C27_ThreeNumericLiterals ==
    \A w \in Workers :
        call[w].fn \in {"validate_scale", "validate_rotation"} =>
            LET s == call[w].arg
                parts == Split(s.s, "")
            IN /\ ret[w] = (/\ s.t = "str"
                            /\ Len(parts) = 3
                            /\ \A i \in 1..Len(parts) : parts[i] \in NumericLiterals)
               /\ (s.t = "str" /\ s.s \in DOMAIN ScaleExamples) => ret[w] = ScaleExamples[s.s]
               /\ s.t # "str" => ret[w] = FALSE
               /\ call[w].fn = "validate_rotation" => ret[w] = ValidateScale(s)

\* validate_rotation accepted "1 2 3".
C27_Witness ==
    \E w \in Workers :
        /\ call[w].fn = "validate_rotation"
        /\ call[w].arg = JStr("1 2 3")
        /\ ret[w] = TRUE

\* The errors of a list that name the field.
About(errors, field_name) ==
    SelectSeq(errors, LAMBDA e : StartsWith(e, "'" \o field_name \o "'"))

\* The paths of the inputs whose target is on the disk.
ExistingTargets == {GoodPath, "../../../../etc/passwd", "../..//etc/passwd"}

\* All required fields of the item are there.
Complete(item) == \A f \in Range(RequiredFields) : HasKey(item, f)

Escapes(path) ==
    LET full_path == Resolve(BaseDir, Drop(path, 6))
    IN ~(Len(full_path) >= Len(BaseDir) /\ SubSeq(full_path, 1, Len(BaseDir)) = BaseDir)

\* C22: a path that starts with "../../" and whose remainder leads out of the
\* project root is rejected by _validate_asset_path, also when the file it names
\* exists.
C22_TraversalRejected ==
    \A w \in Workers :
        (/\ call[w].fn = "_validate_asset_path"
         /\ call[w].arg[1].t = "str"
         /\ StartsWith(call[w].arg[1].s, "../../")
         /\ Escapes(call[w].arg[1].s)) => ret[w] # <<>>

\* The errors of a list that are about a top-level field or a field inside of it.
Within(errors, field) ==
    SelectSeq(errors, LAMBDA e : \/ StartsWith(e, "'" \o field \o "'")
                                 \/ StartsWith(e, "'" \o field \o "."))

\* A value that is not an acceptable asset path.
BadPath(v) == v.t # "str" \/ v.s \notin (ExistingTargets \cup {""})

OutOfRange(v, low, high) == v.t # "num" \/ v.n < low \/ v.n > high

\* The rule of a top-level field is violated by the item (all fields present).
Violated(item, field) ==
    LET v == Get(item, field)
    IN CASE field \in {"id", "name"} -> ~(v.t = "str" /\ v.s # "")
         [] field = "location" ->
               \/ v.t # "obj" \/ ~HasKey(v, "lat") \/ ~HasKey(v, "lng")
               \/ OutOfRange(Get(v, "lat"), -90, 90)
               \/ OutOfRange(Get(v, "lng"), -180, 180)
         [] field = "radiusMeters" -> ~(v.t = "num" /\ v.n > 0)
         [] field = "icon" ->
               \/ v.t # "obj" \/ ~HasKey(v, "shadow") \/ ~HasKey(v, "found")
               \/ BadPath(Get(v, "shadow")) \/ BadPath(Get(v, "found"))
         [] field = "model" ->
               \/ v.t # "obj" \/ ~HasKey(v, "url") \/ BadPath(Get(v, "url"))
               \/ HasKey(v, "usdz") /\ BadPath(Get(v, "usdz"))
         [] field = "badge" ->
               \/ v.t # "obj" \/ ~HasKey(v, "id") \/ ~HasKey(v, "name")
               \/ HasKey(v, "icon") /\ BadPath(Get(v, "icon"))
         [] OTHER -> FALSE

\* C24: when required fields are missing, validate_item returns one 'Missing
\* required field' error for each absent field and nothing else, whatever the
\* values of the fields that are present; when none is missing, the violation of
\* one field never hides that of another: every field whose rule is violated has
\* its error in the list, every field whose rule holds has none, both coordinates
\* and both badge keys are reported side by side, and no error is listed twice.
C24_MissingFirstThenAll ==
    \A w \in Workers :
        call[w].fn = "validate_item" =>
            LET item == call[w].arg
                errors == ret[w]
                absent == {f \in Range(RequiredFields) : ~HasKey(item, f)}
                location == Get(item, "location")
                badge == Get(item, "badge")
            IN IF absent # {}
               THEN /\ Len(errors) = Cardinality(absent)
                    /\ Range(errors) = {"Missing required field: " \o f : f \in absent}
               ELSE /\ \A f \in Range(RequiredFields) :
                          Violated(item, f) <=> Within(errors, f) # <<>>
                    /\ \A i, j \in 1..Len(errors) : errors[i] = errors[j] => i = j
                    /\ (location.t = "obj" /\ HasKey(location, "lat") /\ HasKey(location, "lng")) =>
                          /\ OutOfRange(Get(location, "lat"), -90, 90)
                                <=> About(errors, "location.lat") # <<>>
                          /\ OutOfRange(Get(location, "lng"), -180, 180)
                                <=> About(errors, "location.lng") # <<>>
                    /\ badge.t = "obj" =>
                          /\ ~HasKey(badge, "id") <=> "'badge' must have 'id'" \in Range(errors)
                          /\ ~HasKey(badge, "name") <=> "'badge' must have 'name'" \in Range(errors)

\* An item with all fields whose id and radius are both wrong got both errors.
C24_Witness ==
    \E w \in Workers :
        /\ call[w].fn = "validate_item"
        /\ Complete(call[w].arg)
        /\ Violated(call[w].arg, "id") /\ Violated(call[w].arg, "radiusMeters")
        /\ ret[w] = <<"'id' must be a non-empty string",
                      "'radiusMeters' must be a positive number">>

\* C25: validate_item and validate_badge both return at least one error for every
\* record whose id or name is present but is not a non-empty string.
C25_IdAndNameChecked ==
    \A w \in Workers :
        (/\ call[w].fn \in {"validate_item", "validate_badge"}
         /\ \E f \in {"id", "name"} :
               HasKey(call[w].arg, f) /\ NotNonEmptyString(Get(call[w].arg, f)))
            => ret[w] # <<>>

\* C21: list_backups() and restore_backup(name) are executed only for a logged-in
\* user with the admin role: a session of role basic or editor never causes a
\* restore or a listing.
C21_BackupAdminOnly ==
    \A w \in Workers :
        op[w] \in {"restore", "list_backups"} => role[w] = "admin"

\* The id is base-copy-n for the smallest n >= 1 that no element has as its id.
SmallestCopyId(elems, base, id) ==
    \E n \in 1..(Len(elems) + 1) :
        /\ id = base \o "-copy-" \o ToString(n)
        /\ ~HasId(elems, id)
        /\ \A m \in 1..(n - 1) : HasId(elems, base \o "-copy-" \o ToString(m))

\* C28: duplicating item X hands write() the document read with one item appended,
\* whose id is "X-copy-n" for the smallest n >= 1 that is not an id of the document
\* read, whose name is the name of X with " (Copy)" and whose badge carries the new
\* id and the badge name with " (Copy)"; the item ids of that document, which is
\* the one committed, are pairwise distinct.
C28_DuplicateAppendsFreshCopy ==
    [][\A w \in Workers :
          (ItemDuplicate(w) /\ op'[w] = "write") =>
             LET old == ItemsOf(ReadFile(live))
                 new == ItemsOf(data'[w])
                 item == new[Len(new)]
             IN /\ Len(new) = Len(old) + 1
                /\ \E i \in 1..Len(old) :
                      /\ SmallestCopyId(old, old[i].id, item.id)
                      /\ item.name = old[i].name \o " (Copy)"
                      /\ item.bid = item.id
                      /\ item.bname = old[i].bname \o " (Copy)"
                /\ \A i, j \in 1..Len(new) : new[i].id = new[j].id => i = j]_vars

\* The second copy of item "a" was committed beside the first.
C28_Witness ==
    \E w \in Workers :
        /\ Succeeded(w)
        /\ live = FileOf(data[w])
        /\ HasId(ItemsOf(data[w]), "a-copy-1")
        /\ HasId(ItemsOf(data[w]), "a-copy-2")
        /\ \E i \in 1..Len(ItemsOf(data[w])) :
              /\ ItemsOf(data[w])[i].id = "a-copy-2"
              /\ ItemsOf(data[w])[i].name = "n1 (Copy)"
              /\ ItemsOf(data[w])[i].bid = "a-copy-2"

\* A request of a route that targets the item, or the game badge, with the id.
TargetsItem(w, id) ==
    LET d == ReadFile(live)
    IN \/ \E name \in NewNames : Serve(w, EditItem(d, id, name))
       \/ Serve(w, DeleteItem(d, id))
       \/ Serve(w, DuplicateItem(d, id))
       \/ \E loc \in Locs : Serve(w, UpdateLocation(d, id, loc))
       \/ \E fv \in BulkInputs : Serve(w, BulkEdit(d, "item", id, fv[1], fv[2]))

TargetsBadge(w, id) ==
    LET d == ReadFile(live)
    IN \/ \E name \in NewNames : Serve(w, EditBadge(d, id, name))
       \/ Serve(w, DeleteBadge(d, id))
       \/ \E fv \in BulkInputs : Serve(w, BulkEdit(d, "game_badge", id, fv[1], fv[2]))

\* C29: a request that targets an item or a game badge by id (item edit, delete,
\* duplicate; game-badge edit, delete; map update-location; bulk field update)
\* answers not-found when the document read has no record with that id, and calls
\* neither write() nor _create_backup.
C29_NotFoundWritesNothing ==
    [][\A w \in Workers, id \in Ids :
          (/\ CanParse(live)
           /\ \/ TargetsItem(w, id) /\ ~HasId(ItemsOf(ReadFile(live)), id)
              \/ TargetsBadge(w, id) /\ ~HasId(BadgesOf(ReadFile(live)), id))
             => /\ op'[w] = "early"
                /\ res'[w] = "notfound"
                /\ UNCHANGED <<live, tmp, backups>>]_vars

\* C30: record-level validation is a gate for creation: every item that a create
\* route (the form, the map) appended and that was committed had an empty
\* validate_item error list; an item with an error is never written.
C30_ValidationGatesCreation ==
    \A w \in Workers :
        (Succeeded(w) /\ call[w].fn = "validate_item") => ret[w] = <<>>

\* C33: duplicating an item leaves every item that was there unchanged: in the
\* document handed to write(), which is the one committed, the original item with
\* its badge's id and name and all other items are as in the document read, and
\* only the new item is added.
C33_DuplicateKeepsOriginals ==
    [][\A w \in Workers :
          (ItemDuplicate(w) /\ op'[w] = "write") =>
             LET old == ItemsOf(ReadFile(live))
                 new == ItemsOf(data'[w])
             IN /\ Len(new) = Len(old) + 1
                /\ SubSeq(new, 1, Len(old)) = old]_vars

\* C35: no temporary file outlives a write(): whenever no write() is in progress,
\* assets.json.tmp does not exist, after a write() that succeeded and after one
\* that failed while serialising, re-parsing or replacing.
C35_NoTemporaryFileLeft ==
    (\A w \in Workers : pc[w] \in {"idle", "done"}) => ~tmp.exists

\* The except clause of a failed write() runs inside of the lock.
RollbackHoldsLock ==
    \A w \in Workers :
        (lockImpl = "filelock" /\ pc[w] \in {"rollback", "rollback_copy"}) => lockHolder = w

\* Of two write() calls, one failed and one committed: the live file is the
\* committed document once both have returned.
CommitSurvivesRollback ==
    \A w, v \in Workers :
        (lockImpl = "filelock" /\ w # v /\ Failed(w) /\ Succeeded(v)) => live = FileOf(data[v])

\* C31: with two concurrent writers A and B, a write() of A that fails and rolls
\* back never changes the live document after B has committed: A restores from its
\* backup while it holds the write lock, and never puts the older content of its
\* backup over a document B committed after A took the backup.
C31_RollbackKeepsCommit == RollbackHoldsLock /\ CommitSurvivesRollback

\* restore_backup() never rewrites the live file while a write() is inside of
\* its locked section.
RestoreExcludesWrite ==
    [][\A w \in Workers :
          ((RestoreOpen(w) \/ RestoreCopy(w)) /\ live' # live) =>
             \A v \in Workers : ~InLockedSection(v)]_vars

\* C32: restore_backup() is mutually exclusive with the locked section of
\* write(): it rewrites the live file only while it holds the write lock itself,
\* so never while a write() holds it.
C32_RestoreUnderLock ==
    [][\A w \in Workers :
          ((RestoreOpen(w) \/ RestoreCopy(w)) /\ live' # live) => lockHolder = w]_vars

\* The icon path of the item a worker's request validated without an error.
ValidatedShadow(w) ==
    IF call[w].fn = "validate_item" /\ ret[w] = <<>>
    THEN Get(Get(call[w].arg, "icon"), "shadow").s
    ELSE ""

\* C34: the asset delete never removes a file the live document references: once
\* an asset delete and a concurrent item write have both completed, every
\* non-empty asset path of the committed item, which existed when the item was
\* validated, still exists on the disk.
C34_ReferencedAssetsExist ==
    \A w, v \in Workers :
        (/\ w # v
         /\ pc[w] = "done" /\ op[w] = "write" /\ Succeeded(w)
         /\ pc[v] = "done" /\ op[v] = "delete"
         /\ ValidatedShadow(w) # "")
        => Exists(FullPath(ValidatedShadow(w)))

\* C36: an admin lock-out is impossible: from a table with an active
\* administrator, after any sequence of add, edit and delete requests of
\* logged-in administrators a user with role admin and is_active true remains.
C36_AnActiveAdminRemains ==
    \E i \in UserIds : users[i].exists /\ users[i].role = "admin" /\ users[i].is_active

=============================================================================
